---- MODULE Spec2Model ----
(***************************************************************************)
(* A model of the symbol collision index (CollisionIndex) of the map       *)
(* renderer: box placement, insertion into the two grids and the spatial   *)
(* query.                                                                  *)
(*                                                                         *)
(* Units.  Screen and tile coordinates are integer pixels.  Ratios         *)
(* (perspectiveRatio, tileToViewport, distanceMultiplier) are kept in      *)
(* hundredths, so 0.6 is 60 and 1.0 is 100; the inputs are chosen so that  *)
(* every product the code forms is a whole number of pixels.               *)
(***************************************************************************)
EXTENDS Integers, Sequences, FiniteSets, TLC

VARIABLES grid, ignoredGrid, last, placedTrace, inserts

vars == <<grid, ignoredGrid, last, placedTrace, inserts>>

(***************************************************************************)
(* Bounds of the model.                                                    *)
(***************************************************************************)
\* The largest number of insert calls on one index.
MaxInserts == 2

(***************************************************************************)
(* Program constants.                                                      *)
(***************************************************************************)
viewportPadding == 100

\* 0.6, in hundredths.
perspectiveRatioCutoff == 60

\* An optional field of a FeatureKey or of a query match that is not set.
undefined == -1

OverlapModes == {"never", "always", "cooperative"}

\* The predicate argument of a place call that accepts every key.
NoPredicate == 0

(***************************************************************************)
(* The transform snapshot the index is bound to, and the tiles.  A tile    *)
(* fixes how its coordinates project: its origin on the screen, the screen *)
(* direction of tile east, the distance of its points from the camera, the *)
(* tile row above which points are behind the horizon, and its zoom level  *)
(* relative to the transform's; points above the row behindY lie behind    *)
(* the camera.                                                             *)
(***************************************************************************)
transform == [width |-> 200, height |-> 200, cameraToCenterDistance |-> 100, zoom |-> 0]

Tiles ==
    { [id |-> "near",  ox |-> 0, oy |-> 0, eastX |-> 1, eastY |-> 0, distance |-> 100,  horizonY |-> -1000, behindY |-> -1000, overscaledZ |-> 0],
      [id |-> "edge",  ox |-> 0, oy |-> 0, eastX |-> 1, eastY |-> 0, distance |-> 500,  horizonY |-> 100,   behindY |-> -1000, overscaledZ |-> 0],
      [id |-> "far",   ox |-> 0, oy |-> 0, eastX |-> 1, eastY |-> 0, distance |-> 1000, horizonY |-> -1000, behindY |-> -1000, overscaledZ |-> 0],
      [id |-> "back",  ox |-> 0, oy |-> 0, eastX |-> 1, eastY |-> 0, distance |-> 100,  horizonY |-> 1000,  behindY |-> -1000, overscaledZ |-> 0],
      [id |-> "turn",  ox |-> 200, oy |-> 0, eastX |-> 0, eastY |-> 1, distance |-> 100, horizonY |-> -1000, behindY |-> -1000, overscaledZ |-> 0],
      [id |-> "steep", ox |-> 0, oy |-> 0, eastX |-> 1, eastY |-> 0, distance |-> 100,  horizonY |-> -1000, behindY |-> 100, overscaledZ |-> 0],
      [id |-> "globe", ox |-> 0, oy |-> 0, eastX |-> 1, eastY |-> 0, distance |-> 100,  horizonY |-> 100, behindY |-> -1000, overscaledZ |-> 0] }

Min(a, b) == IF a < b THEN a ELSE b
Max(a, b) == IF a > b THEN a ELSE b
Abs(a) == IF a < 0 THEN -a ELSE a

\* Transform.projectTileCoordinates: the clip-space point is kept as the pair
\* of numerators (cx over width, cy over height).
projectTileCoordinates(x, y, tile) ==
    LET sx == tile.ox + x * tile.eastX - y * tile.eastY
        sy == tile.oy + x * tile.eastY + y * tile.eastX
    IN  [cx |-> 2 * sx - transform.width,
         cy |-> transform.height - 2 * sy,
         signedDistanceFromCamera |-> IF y < tile.behindY THEN -tile.distance ELSE tile.distance,
         isOccluded |-> y < tile.horizonY]

\* Transform.getPitchedTextCorrection, in hundredths.
getPitchedTextCorrection(x, y, tile) == 100

\* getTileSkewVectors for the unrotated, unskewed snapshot.
getTileSkewVectors == [vecEast |-> <<1, 0>>, vecSouth |-> <<0, 1>>]

(***************************************************************************)
(* GridIndex: an append-only list of boxes and circles, each with its key. *)
(* A circle entry also carries its bounding square in x1..y2, which is     *)
(* what query reports for it.                                              *)
(***************************************************************************)
BoxEntry(key, x1, y1, x2, y2) ==
    [shape |-> "box", x1 |-> x1, y1 |-> y1, x2 |-> x2, y2 |-> y2,
     x |-> 0, y |-> 0, radius |-> 0, key |-> key]

CircleEntry(key, x, y, radius) ==
    [shape |-> "circle", x1 |-> x - radius, y1 |-> y - radius,
     x2 |-> x + radius, y2 |-> y + radius,
     x |-> x, y |-> y, radius |-> radius, key |-> key]

GridInsert(g, key, x1, y1, x2, y2) == Append(g, BoxEntry(key, x1, y1, x2, y2))

GridInsertCircle(g, key, x, y, radius) == Append(g, CircleEntry(key, x, y, radius))

keysLength(g) == Len(g)

BoxesCollide(ax1, ay1, ax2, ay2, bx1, by1, bx2, by2) ==
    ax1 <= bx2 /\ ay1 <= by2 /\ ax2 >= bx1 /\ ay2 >= by1

CirclesCollide(x1, y1, r1, x2, y2, r2) ==
    (r1 + r2) * (r1 + r2) > (x2 - x1) * (x2 - x1) + (y2 - y1) * (y2 - y1)

\* Distances are doubled so that the half width of an odd box stays whole.
CircleAndRectCollide(cx, cy, radius, x1, y1, x2, y2) ==
    LET w  == x2 - x1
        h  == y2 - y1
        dx == Abs(2 * cx - (x1 + x2))
        dy == Abs(2 * cy - (y1 + y2))
    IN  /\ dx <= w + 2 * radius
        /\ dy <= h + 2 * radius
        /\ \/ dx <= w
           \/ dy <= h
           \/ (dx - w) * (dx - w) + (dy - h) * (dy - h) <= 4 * radius * radius

\* A collision-group predicate: none, or "the key is of group p".
Matches(predicate, key) == predicate = NoPredicate \/ key.collisionGroupID = predicate

GridHitTest(g, x1, y1, x2, y2, overlapMode, predicate) ==
    /\ overlapMode # "always"
    /\ \E i \in 1..Len(g) :
          /\ Matches(predicate, g[i].key)
          /\ IF g[i].shape = "box"
             THEN BoxesCollide(x1, y1, x2, y2, g[i].x1, g[i].y1, g[i].x2, g[i].y2)
             ELSE CircleAndRectCollide(g[i].x, g[i].y, g[i].radius, x1, y1, x2, y2)

GridHitTestCircle(g, x, y, radius, overlapMode, predicate) ==
    /\ overlapMode # "always"
    /\ \E i \in 1..Len(g) :
          /\ Matches(predicate, g[i].key)
          /\ IF g[i].shape = "box"
             THEN CircleAndRectCollide(x, y, radius, g[i].x1, g[i].y1, g[i].x2, g[i].y2)
             ELSE CirclesCollide(x, y, radius, g[i].x, g[i].y, g[i].radius)

GridQuery(g, x1, y1, x2, y2) ==
    SelectSeq(g, LAMBDA e : BoxesCollide(x1, y1, x2, y2, e.x1, e.y1, e.x2, e.y2))

(***************************************************************************)
(* CollisionIndex.                                                         *)
(***************************************************************************)
\* The boundaries the constructor derives from the size of the viewport.
CollisionIndex(width, height) ==
    [screenRightBoundary |-> width + viewportPadding,
     screenBottomBoundary |-> height + viewportPadding,
     gridRightBoundary |-> width + 2 * viewportPadding,
     gridBottomBoundary |-> height + 2 * viewportPadding]

\* Variant: the grid ends where the screen ends.
isInsideGridOf_screen(this, x1, y1, x2, y2) ==
    /\ x2 >= viewportPadding /\ x1 < this.screenRightBoundary
    /\ y2 >= viewportPadding /\ y1 < this.screenBottomBoundary

isOffscreenOf(this, x1, y1, x2, y2) ==
    \/ x2 < viewportPadding \/ x1 >= this.screenRightBoundary
    \/ y2 < viewportPadding \/ y1 > this.screenBottomBoundary

isInsideGridOf(this, x1, y1, x2, y2) ==
    x2 >= 0 /\ x1 < this.gridRightBoundary /\ y2 >= 0 /\ y1 < this.gridBottomBoundary

\* The collision index of the transform snapshot.
screenRightBoundary == CollisionIndex(transform.width, transform.height).screenRightBoundary
screenBottomBoundary == CollisionIndex(transform.width, transform.height).screenBottomBoundary
gridRightBoundary == CollisionIndex(transform.width, transform.height).gridRightBoundary
gridBottomBoundary == CollisionIndex(transform.width, transform.height).gridBottomBoundary

isOffscreen(x1, y1, x2, y2) ==
    isOffscreenOf(CollisionIndex(transform.width, transform.height), x1, y1, x2, y2)

isInsideGrid(x1, y1, x2, y2) ==
    isInsideGridOf(CollisionIndex(transform.width, transform.height), x1, y1, x2, y2)

\* The fast mercator path (simpleProjectionMatrix given) projects like the
\* transform and never reports occlusion.
projectAndGetPerspectiveRatio(x, y, tile, simpleProjectionMatrix) ==
    LET projected == projectTileCoordinates(x, y, tile)
    IN  [x |-> (projected.cx + transform.width) \div 2 + viewportPadding,
         y |-> (transform.height - projected.cy) \div 2 + viewportPadding,
         perspectiveRatio |->
             50 + (50 * transform.cameraToCenterDistance) \div projected.signedDistanceFromCamera,
         isOccluded |-> IF simpleProjectionMatrix THEN FALSE ELSE projected.isOccluded,
         signedDistanceFromCamera |-> projected.signedDistanceFromCamera]

NoShift == [present |-> FALSE, x |-> 0, y |-> 0]

\* 2^(-zoomFraction) in hundredths, for the whole zoom differences of Tiles.
Pow2Neg(zoomFraction) ==
    CASE zoomFraction = 0 -> 100
      [] zoomFraction = 1 -> 50
      [] zoomFraction = -1 -> 200

clamp(n, lo, hi) == Min(hi, Max(lo, n))

\* getAABB of a sequence of points.
getAABB(points) ==
    LET xs == {points[i].x : i \in 1..Len(points)}
        ys == {points[i].y : i \in 1..Len(points)}
    IN  <<CHOOSE v \in xs : \A u \in xs : v <= u,
          CHOOSE v \in ys : \A u \in ys : v <= u,
          CHOOSE v \in xs : \A u \in xs : v >= u,
          CHOOSE v \in ys : \A u \in ys : v >= u>>

\* The angle to the projected east point, as its cosine and sine; the tiles
\* of the model turn by quarter turns only.
EastBasis(toEastX, toEastY) ==
    CASE toEastX > 0 /\ toEastY = 0 -> [cos |-> 1, sin |-> 0]
      [] toEastX < 0 /\ toEastY = 0 -> [cos |-> -1, sin |-> 0]
      [] toEastX = 0 /\ toEastY > 0 -> [cos |-> 0, sin |-> 1]
      [] toEastX = 0 /\ toEastY < 0 -> [cos |-> 0, sin |-> -1]

\* The eight perimeter points of _projectCollisionBox before the pitched
\* reprojection: screen points, or tile points for a pitch-aligned box.
collisionBoxPerimeter(collisionBox, tileToViewport, tile, pitchWithMap, rotateWithMap, translation, projectedPoint, shift, simpleProjectionMatrix) ==
    LET translatedAnchorX == collisionBox.anchorPointX + translation[1]
        translatedAnchorY == collisionBox.anchorPointY + translation[2]
        projectedEast == projectAndGetPerspectiveRatio(
                             translatedAnchorX + 1, translatedAnchorY, tile, simpleProjectionMatrix)
        angle == EastBasis(projectedEast.x - projectedPoint.x, projectedEast.y - projectedPoint.y)
        skew == getTileSkewVectors
        vecEastX == IF rotateWithMap /\ ~pitchWithMap THEN angle.cos
                    ELSE IF ~rotateWithMap /\ pitchWithMap THEN skew.vecEast[1] ELSE 1
        vecEastY == IF rotateWithMap /\ ~pitchWithMap THEN angle.sin
                    ELSE IF ~rotateWithMap /\ pitchWithMap THEN skew.vecEast[2] ELSE 0
        vecSouthX == IF rotateWithMap /\ ~pitchWithMap THEN -angle.sin
                     ELSE IF ~rotateWithMap /\ pitchWithMap THEN skew.vecSouth[1] ELSE 0
        vecSouthY == IF rotateWithMap /\ ~pitchWithMap THEN angle.cos
                     ELSE IF ~rotateWithMap /\ pitchWithMap THEN skew.vecSouth[2] ELSE 1
        zoomFraction == transform.zoom - tile.overscaledZ
        distanceRatio == (100 * projectedPoint.signedDistanceFromCamera) \div transform.cameraToCenterDistance
        perspectiveRatio == clamp(50 + distanceRatio \div 2, 0, 400)
        pitchedMultiplier ==
            (Pow2Neg(zoomFraction) * getPitchedTextCorrection(translatedAnchorX, translatedAnchorY, tile)) \div 100
        distanceMultiplier ==
            IF pitchWithMap
            THEN IF shift.present THEN pitchedMultiplier
                 ELSE (pitchedMultiplier * perspectiveRatio) \div 100
            ELSE tileToViewport
        shiftX == IF shift.present
                  THEN (vecEastX * shift.x * distanceMultiplier + vecSouthX * shift.y * distanceMultiplier) \div 100
                  ELSE 0
        shiftY == IF shift.present
                  THEN (vecEastY * shift.x * distanceMultiplier + vecSouthY * shift.y * distanceMultiplier) \div 100
                  ELSE 0
        basePointX == (IF pitchWithMap THEN translatedAnchorX ELSE projectedPoint.x) + shiftX
        basePointY == (IF pitchWithMap THEN translatedAnchorY ELSE projectedPoint.y) + shiftY
        offsetXmin == (collisionBox.x1 * distanceMultiplier) \div 100
        offsetXmax == (collisionBox.x2 * distanceMultiplier) \div 100
        offsetXhalf == (offsetXmin + offsetXmax) \div 2
        offsetYmin == (collisionBox.y1 * distanceMultiplier) \div 100
        offsetYmax == (collisionBox.y2 * distanceMultiplier) \div 100
        offsetYhalf == (offsetYmin + offsetYmax) \div 2
        offsetsArray == << <<offsetXmin, offsetYmin>>, <<offsetXhalf, offsetYmin>>,
                           <<offsetXmax, offsetYmin>>, <<offsetXmax, offsetYhalf>>,
                           <<offsetXmax, offsetYmax>>, <<offsetXhalf, offsetYmax>>,
                           <<offsetXmin, offsetYmax>>, <<offsetXmin, offsetYhalf>> >>
    IN  [i \in 1..8 |->
            [x |-> basePointX + vecEastX * offsetsArray[i][1] + vecSouthX * offsetsArray[i][2],
             y |-> basePointY + vecEastY * offsetsArray[i][1] + vecSouthY * offsetsArray[i][2]]]

\* Variant: a pitch-aligned box counts as occluded as soon as one of its
\* perimeter points is.
projectCollisionBox_anyOccluded(collisionBox, tileToViewport, tile, pitchWithMap, rotateWithMap, translation, projectedPoint, shift, simpleProjectionMatrix) ==
    LET points == collisionBoxPerimeter(collisionBox, tileToViewport, tile, pitchWithMap,
                                        rotateWithMap, translation, projectedPoint, shift,
                                        simpleProjectionMatrix)
        projected == [i \in 1..8 |->
                         projectAndGetPerspectiveRatio(points[i].x, points[i].y, tile, simpleProjectionMatrix)]
    IN  [box |-> getAABB(IF pitchWithMap THEN projected ELSE points),
         allPointsOccluded |-> pitchWithMap /\ \E i \in 1..8 : projected[i].isOccluded]

projectCollisionBox(collisionBox, tileToViewport, tile, pitchWithMap, rotateWithMap, translation, projectedPoint, shift, simpleProjectionMatrix) ==
    LET points == collisionBoxPerimeter(collisionBox, tileToViewport, tile, pitchWithMap,
                                        rotateWithMap, translation, projectedPoint, shift,
                                        simpleProjectionMatrix)
        projected == [i \in 1..8 |->
                         projectAndGetPerspectiveRatio(points[i].x, points[i].y, tile, simpleProjectionMatrix)]
        anyPointVisible == IF pitchWithMap THEN \E i \in 1..8 : ~projected[i].isOccluded ELSE TRUE
    IN  [box |-> getAABB(IF pitchWithMap THEN projected ELSE points),
         allPointsOccluded |-> ~anyPointVisible]

\* The first half of placeCollisionBox: the projected anchor and the
\* projected box.  It reads the transform only, never the grids.
projectBox(collisionBox, textPixelRatio, tile, pitchWithMap, rotateWithMap, translation, shift, simpleProjectionMatrix) ==
    LET x == collisionBox.anchorPointX + translation[1]
        y == collisionBox.anchorPointY + translation[2]
        projectedPoint == projectAndGetPerspectiveRatio(x, y, tile, simpleProjectionMatrix)
        tileToViewport == textPixelRatio * projectedPoint.perspectiveRatio
        pointX == projectedPoint.x + (IF shift.present THEN (shift.x * tileToViewport) \div 100 ELSE 0)
        pointY == projectedPoint.y + (IF shift.present THEN (shift.y * tileToViewport) \div 100 ELSE 0)
    IN  [projectedPoint |-> projectedPoint,
         projectedBox |->
            IF ~pitchWithMap /\ ~rotateWithMap
            THEN [allPointsOccluded |-> FALSE,
                  box |-> <<pointX + (collisionBox.x1 * tileToViewport) \div 100,
                            pointY + (collisionBox.y1 * tileToViewport) \div 100,
                            pointX + (collisionBox.x2 * tileToViewport) \div 100,
                            pointY + (collisionBox.y2 * tileToViewport) \div 100>>]
            ELSE projectCollisionBox(collisionBox, tileToViewport, tile, pitchWithMap, rotateWithMap,
                                     translation, projectedPoint, shift, simpleProjectionMatrix)]

\* The decision of placeCollisionBox with its parts switched: whether the
\* grid is asked (and for which overlap modes), whether the perspective
\* ratio cutoff applies, and whether a rejected box has offscreen computed.
placeCollisionBoxWith(g, projection, overlapMode, pitchWithMap, collisionGroupPredicate, testedModes, hitTestMode, cutoff, offscreenWhenRejected) ==
    LET projectedPoint == projection.projectedPoint
        projectedBox == projection.projectedBox
        tlX == projectedBox.box[1]
        tlY == projectedBox.box[2]
        brX == projectedBox.box[3]
        brY == projectedBox.box[4]
        occluded == IF pitchWithMap THEN projectedBox.allPointsOccluded ELSE projectedPoint.isOccluded
        unplaceable == \/ occluded
                       \/ projectedPoint.perspectiveRatio < cutoff
                       \/ ~isInsideGrid(tlX, tlY, brX, brY)
    IN  IF unplaceable \/ (overlapMode \in testedModes
                           /\ GridHitTest(g, tlX, tlY, brX, brY, hitTestMode, collisionGroupPredicate))
        THEN [box |-> <<tlX, tlY, brX, brY>>, placeable |-> FALSE,
              offscreen |-> offscreenWhenRejected /\ isOffscreen(tlX, tlY, brX, brY),
              occluded |-> occluded]
        ELSE [box |-> <<tlX, tlY, brX, brY>>, placeable |-> TRUE,
              offscreen |-> isOffscreen(tlX, tlY, brX, brY), occluded |-> occluded]

\* Variant: the grid is never asked.
placeCollisionBox_skipHitTest(g, projection, overlapMode, pitchWithMap, collisionGroupPredicate) ==
    placeCollisionBoxWith(g, projection, overlapMode, pitchWithMap, collisionGroupPredicate,
                          {}, overlapMode, perspectiveRatioCutoff, FALSE)

\* Variant: the grid is asked for 'never' boxes only.
placeCollisionBox_cooperativePasses(g, projection, overlapMode, pitchWithMap, collisionGroupPredicate) ==
    placeCollisionBoxWith(g, projection, overlapMode, pitchWithMap, collisionGroupPredicate,
                          {"never"}, overlapMode, perspectiveRatioCutoff, FALSE)

\* Variant: an 'always' box is hit-tested like a 'never' box.
placeCollisionBox_alwaysTested(g, projection, overlapMode, pitchWithMap, collisionGroupPredicate) ==
    placeCollisionBoxWith(g, projection, overlapMode, pitchWithMap, collisionGroupPredicate,
                          OverlapModes, "never", perspectiveRatioCutoff, FALSE)

\* Variant: no perspective ratio cutoff.
placeCollisionBox_noCutoff(g, projection, overlapMode, pitchWithMap, collisionGroupPredicate) ==
    placeCollisionBoxWith(g, projection, overlapMode, pitchWithMap, collisionGroupPredicate,
                          OverlapModes \ {"always"}, overlapMode, 0, FALSE)

\* Variant: offscreen is computed for a rejected box too.
placeCollisionBox_offscreenAnyway(g, projection, overlapMode, pitchWithMap, collisionGroupPredicate) ==
    placeCollisionBoxWith(g, projection, overlapMode, pitchWithMap, collisionGroupPredicate,
                          OverlapModes \ {"always"}, overlapMode, perspectiveRatioCutoff, TRUE)

\* The second half of placeCollisionBox: the decision, given the projection.
placeCollisionBox(g, projection, overlapMode, pitchWithMap, collisionGroupPredicate) ==
    LET projectedPoint == projection.projectedPoint
        projectedBox == projection.projectedBox
        tlX == projectedBox.box[1]
        tlY == projectedBox.box[2]
        brX == projectedBox.box[3]
        brY == projectedBox.box[4]
        occluded == IF pitchWithMap THEN projectedBox.allPointsOccluded ELSE projectedPoint.isOccluded
        unplaceable == \/ occluded
                       \/ projectedPoint.perspectiveRatio < perspectiveRatioCutoff
                       \/ ~isInsideGrid(tlX, tlY, brX, brY)
    IN  IF unplaceable \/ (overlapMode # "always"
                           /\ GridHitTest(g, tlX, tlY, brX, brY, overlapMode, collisionGroupPredicate))
        THEN [box |-> <<tlX, tlY, brX, brY>>, placeable |-> FALSE, offscreen |-> FALSE,
              occluded |-> occluded]
        ELSE [box |-> <<tlX, tlY, brX, brY>>, placeable |-> TRUE,
              offscreen |-> isOffscreen(tlX, tlY, brX, brY), occluded |-> occluded]

\* Variant: every box goes to the main grid, ignorePlacement or not.
insertCollisionBox_ignoresFlag(g, ig, collisionBox, overlapMode, ignorePlacement, bucketInstanceId, featureIndex, collisionGroupID) ==
    LET key == [bucketInstanceId |-> bucketInstanceId, featureIndex |-> featureIndex,
                collisionGroupID |-> collisionGroupID, overlapMode |-> overlapMode,
                collisionCircleIndex |-> undefined, glyphArrayIndex |-> undefined,
                glyphCharCode |-> undefined]
    IN  [grid |-> GridInsert(g, key, collisionBox[1], collisionBox[2],
                             collisionBox[3], collisionBox[4]),
         ignoredGrid |-> ig]

\* Variant: the box is entered into both grids.
insertCollisionBox_bothGrids(g, ig, collisionBox, overlapMode, ignorePlacement, bucketInstanceId, featureIndex, collisionGroupID) ==
    LET key == [bucketInstanceId |-> bucketInstanceId, featureIndex |-> featureIndex,
                collisionGroupID |-> collisionGroupID, overlapMode |-> overlapMode,
                collisionCircleIndex |-> undefined, glyphArrayIndex |-> undefined,
                glyphCharCode |-> undefined]
    IN  [grid |-> GridInsert(g, key, collisionBox[1], collisionBox[2],
                             collisionBox[3], collisionBox[4]),
         ignoredGrid |-> GridInsert(ig, key, collisionBox[1], collisionBox[2],
                                    collisionBox[3], collisionBox[4])]

insertCollisionBox(g, ig, collisionBox, overlapMode, ignorePlacement, bucketInstanceId, featureIndex, collisionGroupID) ==
    LET key == [bucketInstanceId |-> bucketInstanceId, featureIndex |-> featureIndex,
                collisionGroupID |-> collisionGroupID, overlapMode |-> overlapMode,
                collisionCircleIndex |-> undefined, glyphArrayIndex |-> undefined,
                glyphCharCode |-> undefined]
    IN  IF ignorePlacement
        THEN [grid |-> g,
              ignoredGrid |-> GridInsert(ig, key, collisionBox[1], collisionBox[2],
                                         collisionBox[3], collisionBox[4])]
        ELSE [grid |-> GridInsert(g, key, collisionBox[1], collisionBox[2],
                                  collisionBox[3], collisionBox[4]),
              ignoredGrid |-> ig]

(***************************************************************************)
(* PathInterpolator and clipLine.  The paths of the model run along the    *)
(* axes, so arclengths are whole numbers.                                  *)
(***************************************************************************)
Sgn(a) == IF a > 0 THEN 1 ELSE IF a < 0 THEN -1 ELSE 0

Dist(p, q) == Abs(q.x - p.x) + Abs(q.y - p.y)

RECURSIVE PathLength(_)
PathLength(path) ==
    IF Len(path) <= 1 THEN 0
    ELSE Dist(path[1], path[2]) + PathLength(Tail(path))

\* PathInterpolator.reset: the length of the path and its length with the
\* padding at both ends.
InterpolatorLength(path) == PathLength(path)
InterpolatorPaddedLength(path, padding) == PathLength(path) + 2 * padding

\* The point at distance d from p along the axis-parallel segment p -> q.
Along(p, q, d) == [x |-> p.x + Sgn(q.x - p.x) * d, y |-> p.y + Sgn(q.y - p.y) * d]

RECURSIVE PointAtDistance(_, _)
PointAtDistance(path, d) ==
    IF Len(path) = 1 THEN path[1]
    ELSE IF Len(path) = 2 \/ d <= Dist(path[1], path[2]) THEN Along(path[1], path[2], d)
    ELSE PointAtDistance(Tail(path), d - Dist(path[1], path[2]))

\* PathInterpolator.lerp(t) with t = num / den: the point at distance
\* t * paddedLength along the padded path.
InterpolatorLerp(path, padding, num, den) ==
    PointAtDistance(path, (num * InterpolatorPaddedLength(path, padding)) \div den - padding)

\* One segment p0 -> p1 cut to the rectangle; <<>> when it lies outside.
ClipSegment(p0, p1, x1, y1, x2, y2) ==
    LET CutX(p, q, xx) == [x |-> xx, y |-> p.y + ((q.y - p.y) * (xx - p.x)) \div (q.x - p.x)]
        CutY(p, q, yy) == [x |-> p.x + ((q.x - p.x) * (yy - p.y)) \div (q.y - p.y), y |-> yy]
        a0 == IF p0.x < x1 THEN CutX(p0, p1, x1) ELSE p0
        a1 == IF p1.x < x1 THEN CutX(p0, p1, x1) ELSE p1
        b0 == IF a0.y < y1 THEN CutY(a0, a1, y1) ELSE a0
        b1 == IF a1.y < y1 THEN CutY(a0, a1, y1) ELSE a1
        c0 == IF b0.x >= x2 THEN CutX(b0, b1, x2) ELSE b0
        c1 == IF b1.x >= x2 THEN CutX(b0, b1, x2) ELSE b1
        d0 == IF c0.y >= y2 THEN CutY(c0, c1, y2) ELSE c0
        d1 == IF c1.y >= y2 THEN CutY(c0, c1, y2) ELSE c1
    IN  IF p0.x < x1 /\ p1.x < x1 THEN <<>>
        ELSE IF a0.y < y1 /\ a1.y < y1 THEN <<>>
        ELSE IF b0.x >= x2 /\ b1.x >= x2 THEN <<>>
        ELSE IF c0.y >= y2 /\ c1.y >= y2 THEN <<>>
        ELSE <<d0, d1>>

\* clipLine of one path: the clipped segments, joined where one ends at the
\* point the next starts from.
RECURSIVE ClipFrom(_, _, _, _, _, _, _)
ClipFrom(line, i, out, x1, y1, x2, y2) ==
    IF i >= Len(line) THEN out
    ELSE LET c == ClipSegment(line[i], line[i + 1], x1, y1, x2, y2)
         IN  IF c = <<>> THEN ClipFrom(line, i + 1, out, x1, y1, x2, y2)
             ELSE IF out # <<>> /\ c[1] = out[Len(out)][Len(out[Len(out)])]
             THEN ClipFrom(line, i + 1,
                           [out EXCEPT ![Len(out)] = Append(@, c[2])], x1, y1, x2, y2)
             ELSE ClipFrom(line, i + 1, Append(out, c), x1, y1, x2, y2)

clipLine(line, x1, y1, x2, y2) == ClipFrom(line, 1, <<>>, x1, y1, x2, y2)

(***************************************************************************)
(* Circle placement for labels that follow a line.                         *)
(***************************************************************************)
SPECIAL_GLYPH_CODES == {119, 110, 115, 57655}

WritingModeHorizontal == 1
WritingModeVertical == 2

\* getPerspectiveRatio, in hundredths.
getPerspectiveRatio(x, y, tile) ==
    50 + (50 * transform.cameraToCenterDistance)
             \div projectTileCoordinates(x, y, tile).signedDistanceFromCamera

\* projectPathSpecialProjection: each label-plane point of a pitched label
\* projected to the screen (the pitched label plane is the tile plane).
projectPathSpecialProjection(points, tile) ==
    [i \in 1..Len(points) |->
        LET projected == projectTileCoordinates(points[i].x, points[i].y, tile)
        IN  [point |-> [x |-> (projected.cx + transform.width) \div 2,
                        y |-> (transform.height - projected.cy) \div 2],
             signedDistanceFromCamera |-> projected.signedDistanceFromCamera,
             isOccluded |-> projected.isOccluded]]

\* pathSlicedToLongestUnoccluded: the first longest run of points that are
\* not occluded.
pathSlicedToLongestUnoccluded(path) ==
    LET Run(a, b) == a <= b /\ \A k \in a..b : ~path[k].isOccluded
        runs == {ab \in (1..Len(path)) \X (1..Len(path)) : Run(ab[1], ab[2])}
        best == CHOOSE ab \in runs :
                    \A cd \in runs :
                        \/ ab[2] - ab[1] > cd[2] - cd[1]
                        \/ (ab[2] - ab[1] = cd[2] - cd[1] /\ ab[1] <= cd[1])
    IN  IF runs = {} THEN <<>> ELSE SubSeq(path, best[1], best[2])

projectPathToScreenSpace(projectedPath, tile) ==
    pathSlicedToLongestUnoccluded(projectPathSpecialProjection(projectedPath, tile))

\* projectLabelPointToClip: the clip-space point as numerators over the
\* width and the height.
projectLabelPointToClip(point, tile, pitchWithMap) ==
    IF pitchWithMap
    THEN LET projected == projectTileCoordinates(point.x, point.y, tile)
         IN  [cx |-> projected.cx, cy |-> projected.cy]
    ELSE [cx |-> 2 * point.x - transform.width, cy |-> transform.height - 2 * point.y]

Reverse(seq) == [i \in 1..Len(seq) |-> seq[Len(seq) + 1 - i]]

RECURSIVE Concat(_)
Concat(seqs) == IF seqs = <<>> THEN <<>> ELSE Head(seqs) \o Concat(Tail(seqs))

\* ceil(a / b) for b > 0.
CeilDiv(a, b) == -((-a) \div b)

\* The circle array: four numbers (x, y, radius, flag) for each circle.
FlatCircles(cs) ==
    [k \in 1..(4 * Len(cs)) |->
        LET c == cs[(k - 1) \div 4 + 1]
        IN  CASE (k - 1) % 4 = 0 -> c.x
              [] (k - 1) % 4 = 1 -> c.y
              [] (k - 1) % 4 = 2 -> c.radius
              [] (k - 1) % 4 = 3 -> c.flag]

\* Variant: the count formula is used for a short segment too.
SegmentCircles_noShortCase(seg, radius) ==
    LET padding == radius \div 4
        circleDist == (radius * 5) \div 2
        numCircles == CeilDiv(InterpolatorPaddedLength(seg, padding), circleDist) + 1
    IN  [i \in 1..numCircles |->
            LET circlePosition == InterpolatorLerp(seg, padding, i - 1, Max(numCircles - 1, 1))
            IN  [x |-> circlePosition.x + viewportPadding,
                 y |-> circlePosition.y + viewportPadding]]

\* Variant: circle i is sampled at i / numCircles.
SampleParameter_byCount(i, numCircles) == [num |-> i, den |-> Max(numCircles, 1)]

\* t = i / Math.max(numCircles - 1, 1), as numerator and denominator.
SampleParameter(i, numCircles) == [num |-> i, den |-> Max(numCircles - 1, 1)]

\* The circle centres sampled on one visible segment, viewport padding added.
SegmentCircles(seg, radius) ==
    LET padding == radius \div 4
        circleDist == (radius * 5) \div 2
        numCircles == IF 2 * InterpolatorLength(seg) <= radius THEN 1
                      ELSE CeilDiv(InterpolatorPaddedLength(seg, padding), circleDist) + 1
    IN  [i \in 1..numCircles |->
            LET t == SampleParameter(i - 1, numCircles)
                circlePosition == InterpolatorLerp(seg, padding, t.num, t.den)
            IN  [x |-> circlePosition.x + viewportPadding,
                 y |-> circlePosition.y + viewportPadding]]

\* Variant: the direction of the text is not looked at.
canPlaceGlyphCirclesFor_anyDirection(keepUpright, writingMode, rise, run) == TRUE

\* canPlaceGlyphCircles after the upright test: horizontal text that runs
\* nearer the vertical than the horizontal on screen gets no glyph circles.
canPlaceGlyphCirclesFor(keepUpright, writingMode, rise, run) ==
    ~(keepUpright /\ writingMode = WritingModeHorizontal /\ rise > run)

\* Math.pow(2, -zoomFraction) in ten-thousandths, for a zoom fraction in
\* hundredths that is a whole number of quarters.
PowOfTwoNeg(zoomFraction) ==
    CASE zoomFraction = 0 -> 10000
      [] zoomFraction = 25 -> 8409
      [] zoomFraction = 50 -> 7071
      [] zoomFraction = 75 -> 5946

\* Variant: the radius is half the diameter, whatever the zoom.
collisionCircleRadius_halfDiameter(zoom, circlePixelDiameter, perspectiveRatio, textPixelPadding) ==
    (circlePixelDiameter * 50 * perspectiveRatio) \div 100 + 100 * textPixelPadding

\* The radius of the collision circles in hundredths of a pixel; zoom and
\* perspectiveRatio are in hundredths.
collisionCircleRadius(zoom, circlePixelDiameter, perspectiveRatio, textPixelPadding) ==
    LET zoomFraction == zoom - 100 * (zoom \div 100)
        \* 1 / Math.pow(2, -zoomFraction), in ten-thousandths, to the nearest
        circlePixelDiameterMultiplier ==
            (2 * 100000000 + PowOfTwoNeg(zoomFraction)) \div (2 * PowOfTwoNeg(zoomFraction))
    IN  (((circlePixelDiameterMultiplier * circlePixelDiameter * 25) \div 100)
             * perspectiveRatio) \div 10000 + 100 * textPixelPadding

\* Variant: a path that crosses the padded viewport is kept whole.
visibleSegments_unclipped(projectedPath, screenPlaneMin, screenPlaneMax) ==
    LET bounds == getAABB(projectedPath)
    IN  IF projectedPath = <<>> THEN <<>>
        ELSE IF \/ bounds[3] < screenPlaneMin.x \/ bounds[1] > screenPlaneMax.x
                \/ bounds[4] < screenPlaneMin.y \/ bounds[2] > screenPlaneMax.y
        THEN <<>>
        ELSE <<projectedPath>>

\* The visibility pre-filter: the parts of the projected path that circles
\* are sampled on.
visibleSegments(projectedPath, screenPlaneMin, screenPlaneMax) ==
    LET bounds == getAABB(projectedPath)
    IN  IF projectedPath = <<>> THEN <<>>
        ELSE IF /\ bounds[1] >= screenPlaneMin.x /\ bounds[3] <= screenPlaneMax.x
                /\ bounds[2] >= screenPlaneMin.y /\ bounds[4] <= screenPlaneMax.y
        THEN <<projectedPath>>
        ELSE IF \/ bounds[3] < screenPlaneMin.x \/ bounds[1] > screenPlaneMax.x
                \/ bounds[4] < screenPlaneMin.y \/ bounds[2] > screenPlaneMax.y
        THEN <<>>
        ELSE clipLine(projectedPath, screenPlaneMin.x, screenPlaneMin.y,
                      screenPlaneMax.x, screenPlaneMax.y)

\* The geometry of placeCollisionCircles: the radius, the centres of the
\* path circles in order and the special-glyph circles with their glyph
\* hits.  It reads the transform only, never the grids.
circleGeometry(symbol, glyphs, firstAndLastGlyph, tile, pitchWithMap, keepUpright, circlePixelDiameter, textPixelPadding) ==
    LET perspectiveRatio == getPerspectiveRatio(symbol.anchorX, symbol.anchorY, tile)
        firstClip == projectLabelPointToClip(firstAndLastGlyph.first.point, tile, pitchWithMap)
        lastClip == projectLabelPointToClip(firstAndLastGlyph.last.point, tile, pitchWithMap)
        \* rise and run, both times the height
        rise == Abs(lastClip.cy - firstClip.cy)
        run == Abs(lastClip.cx - firstClip.cx)
        canPlaceGlyphCircles ==
            canPlaceGlyphCirclesFor(keepUpright, symbol.writingMode, rise, run)
        glyphFlip ==
            /\ keepUpright
            /\ canPlaceGlyphCircles
            /\ IF symbol.writingMode = WritingModeVertical
               THEN firstClip.cy < lastClip.cy
               ELSE firstClip.cx > lastClip.cx
        \* in whole pixels: the transform snapshot is at a whole zoom
        radius == collisionCircleRadius(100 * transform.zoom, circlePixelDiameter,
                                        perspectiveRatio, textPixelPadding) \div 100
        screenPlaneMin == [x |-> -viewportPadding, y |-> -viewportPadding]
        screenPlaneMax == [x |-> screenRightBoundary, y |-> screenBottomBoundary]
        first == firstAndLastGlyph.first
        lastG == firstAndLastGlyph.last
        labelPath == Reverse(Tail(first.path)) \o Tail(lastG.path)
        screenSpacePath == projectPathToScreenSpace(labelPath, tile)
        projectedPath ==
            IF pitchWithMap
            THEN IF \E k \in 1..Len(screenSpacePath) :
                        screenSpacePath[k].signedDistanceFromCamera <= 0
                 THEN <<>>
                 ELSE [k \in 1..Len(screenSpacePath) |-> screenSpacePath[k].point]
            ELSE labelPath
        segments == visibleSegments(projectedPath, screenPlaneMin, screenPlaneMax)
        centres == Concat([k \in 1..Len(segments) |-> SegmentCircles(segments[k], radius)])
        \* the special glyphs that were placed along the line, in glyph order
        glyphIndexes == SelectSeq([k \in 1..symbol.numGlyphs |-> k],
                                  LAMBDA k : /\ glyphs[k].glyphCharCode \in SPECIAL_GLYPH_CODES
                                             /\ glyphs[k].placed)
        GlyphLabelPoint(k) == IF glyphFlip THEN glyphs[k].flippedPoint ELSE glyphs[k].point
        glyphProjections ==
            projectPathSpecialProjection([j \in 1..Len(glyphIndexes) |->
                                             GlyphLabelPoint(glyphIndexes[j])], tile)
        shown == IF symbol.numGlyphs > 0 /\ symbol.lineLength > 0 /\ canPlaceGlyphCircles
                 THEN SelectSeq([j \in 1..Len(glyphIndexes) |-> j],
                                LAMBDA j : ~pitchWithMap \/ ~glyphProjections[j].isOccluded)
                 ELSE <<>>
        GlyphPoint(j) == IF pitchWithMap THEN glyphProjections[j].point
                         ELSE GlyphLabelPoint(glyphIndexes[j])
        glyphCircles == [n \in 1..Len(shown) |->
                            [x |-> GlyphPoint(shown[n]).x + viewportPadding,
                             y |-> GlyphPoint(shown[n]).y + viewportPadding,
                             radius |-> radius, flag |-> 2]]
        glyphHits == [n \in 1..Len(shown) |->
                         [circleIndex |-> Len(centres) + n - 1,
                          glyphArrayIndex |-> symbol.glyphStartIndex + glyphIndexes[shown[n]] - 1,
                          glyphCharCode |-> glyphs[glyphIndexes[shown[n]]].glyphCharCode]]
    IN  [present |-> firstAndLastGlyph.present,
         perspectiveRatio |-> perspectiveRatio,
         radius |-> IF firstAndLastGlyph.present THEN radius ELSE 0,
         projectedPath |-> IF firstAndLastGlyph.present THEN projectedPath ELSE <<>>,
         segments |-> IF firstAndLastGlyph.present THEN segments ELSE <<>>,
         centres |-> IF firstAndLastGlyph.present THEN centres ELSE <<>>,
         glyphCircles |-> IF firstAndLastGlyph.present THEN glyphCircles ELSE <<>>,
         glyphHits |-> IF firstAndLastGlyph.present THEN glyphHits ELSE <<>>]

\* placeCollisionCircles with its parts switched: whether a collision
\* returns early, whether circles outside the grid empty the result, and
\* the perspective ratio cutoff.
placeCollisionCirclesWith(g, geometry, overlapMode, showCollisionCircles, collisionGroupPredicate, returnsEarly, needsGrid, cutoff) ==
    LET centres == geometry.centres
        Collided(c) ==
            /\ overlapMode # "always"
            /\ GridHitTestCircle(g, c.x, c.y, geometry.radius, overlapMode, collisionGroupPredicate)
        pathCollision == \E k \in 1..Len(centres) : Collided(centres[k])
        placedCollisionCircles ==
            [k \in 1..Len(centres) |->
                [x |-> centres[k].x, y |-> centres[k].y, radius |-> geometry.radius,
                 flag |-> IF Collided(centres[k]) THEN 1 ELSE 0]] \o geometry.glyphCircles
        Square(c) == <<c.x - c.radius, c.y - c.radius, c.x + c.radius, c.y + c.radius>>
        inGrid == \E k \in 1..Len(placedCollisionCircles) :
                      LET q == Square(placedCollisionCircles[k])
                      IN  isInsideGrid(q[1], q[2], q[3], q[4])
    IN  IF ~geometry.present
        THEN [circles |-> <<>>, offscreen |-> TRUE, collisionDetected |-> FALSE,
              glyphHits |-> <<>>]
        ELSE IF returnsEarly /\ pathCollision /\ ~showCollisionCircles
        THEN [circles |-> <<>>, offscreen |-> FALSE, collisionDetected |-> TRUE,
              glyphHits |-> <<>>]
        ELSE [circles |-> IF \/ (returnsEarly /\ ~showCollisionCircles /\ pathCollision)
                             \/ (needsGrid /\ ~inGrid)
                             \/ geometry.perspectiveRatio < cutoff
                          THEN <<>>
                          ELSE FlatCircles(placedCollisionCircles),
              offscreen |-> \A k \in 1..Len(placedCollisionCircles) :
                                LET q == Square(placedCollisionCircles[k])
                                IN  isOffscreen(q[1], q[2], q[3], q[4]),
              collisionDetected |-> pathCollision,
              glyphHits |-> geometry.glyphHits]

\* Variant: the special-glyph circles are hit-tested like the path circles.
placeCollisionCircles_glyphsTested(g, geometry, overlapMode, showCollisionCircles, collisionGroupPredicate) ==
    LET tested == placeCollisionCirclesWith(g, geometry, overlapMode, showCollisionCircles,
                                            collisionGroupPredicate, TRUE, TRUE,
                                            perspectiveRatioCutoff)
        glyphCollision ==
            \E n \in 1..Len(geometry.glyphCircles) :
                GridHitTestCircle(g, geometry.glyphCircles[n].x, geometry.glyphCircles[n].y,
                                  geometry.radius, overlapMode, collisionGroupPredicate)
    IN  IF geometry.present /\ glyphCollision /\ ~showCollisionCircles
        THEN [circles |-> <<>>, offscreen |-> FALSE, collisionDetected |-> TRUE,
              glyphHits |-> <<>>]
        ELSE tested

\* Variant: a collision returns early with debug circles on as well.
placeCollisionCircles_debugAborts(g, geometry, overlapMode, showCollisionCircles, collisionGroupPredicate) ==
    placeCollisionCirclesWith(g, geometry, overlapMode, FALSE, collisionGroupPredicate,
                              TRUE, TRUE, perspectiveRatioCutoff)

\* Variant: a collision never returns early, debug circles or not.
placeCollisionCircles_noAbort(g, geometry, overlapMode, showCollisionCircles, collisionGroupPredicate) ==
    placeCollisionCirclesWith(g, geometry, overlapMode, showCollisionCircles,
                              collisionGroupPredicate, FALSE, TRUE, perspectiveRatioCutoff)

\* Variant: circles that all lie outside the grid are returned.
placeCollisionCircles_keepsOutside(g, geometry, overlapMode, showCollisionCircles, collisionGroupPredicate) ==
    placeCollisionCirclesWith(g, geometry, overlapMode, showCollisionCircles,
                              collisionGroupPredicate, TRUE, FALSE, perspectiveRatioCutoff)

\* The hit tests and the result of placeCollisionCircles, given the geometry.
placeCollisionCircles(g, geometry, overlapMode, showCollisionCircles, collisionGroupPredicate) ==
    LET perspectiveRatio == geometry.perspectiveRatio
        radius == geometry.radius
        centres == geometry.centres
        glyphCircles == geometry.glyphCircles
        glyphHits == geometry.glyphHits
        Collided(c) ==
            /\ overlapMode # "always"
            /\ GridHitTestCircle(g, c.x, c.y, radius, overlapMode, collisionGroupPredicate)
        pathCollision == \E k \in 1..Len(centres) : Collided(centres[k])
        pathCircles == [k \in 1..Len(centres) |->
                           [x |-> centres[k].x, y |-> centres[k].y, radius |-> radius,
                            flag |-> IF Collided(centres[k]) THEN 1 ELSE 0]]
        placedCollisionCircles == pathCircles \o glyphCircles
        \* updateCoverage is called for every circle that is placed
        covered == 1..Len(placedCollisionCircles)
        Square(c) == <<c.x - c.radius, c.y - c.radius, c.x + c.radius, c.y + c.radius>>
        entirelyOffscreen ==
            \A k \in covered :
                LET q == Square(placedCollisionCircles[k]) IN isOffscreen(q[1], q[2], q[3], q[4])
        inGrid ==
            \E k \in covered :
                LET q == Square(placedCollisionCircles[k]) IN isInsideGrid(q[1], q[2], q[3], q[4])
    IN  IF ~geometry.present
        THEN [circles |-> <<>>, offscreen |-> TRUE, collisionDetected |-> FALSE,
              glyphHits |-> <<>>]
        ELSE IF pathCollision /\ ~showCollisionCircles
        THEN [circles |-> <<>>, offscreen |-> FALSE, collisionDetected |-> TRUE,
              glyphHits |-> <<>>]
        ELSE [circles |-> IF \/ (~showCollisionCircles /\ pathCollision)
                             \/ ~inGrid
                             \/ perspectiveRatio < perspectiveRatioCutoff
                          THEN <<>>
                          ELSE FlatCircles(placedCollisionCircles),
              offscreen |-> entirelyOffscreen,
              collisionDetected |-> pathCollision,
              glyphHits |-> glyphHits]

\* The number of grid.hitTestCircle calls the loop over the path circles
\* makes: none for 'always', and none after the circle whose collision
\* returns early.
hitTestsMade(g, geometry, overlapMode, showCollisionCircles, collisionGroupPredicate) ==
    LET centres == geometry.centres
        Collided(k) == GridHitTestCircle(g, centres[k].x, centres[k].y, geometry.radius,
                                         overlapMode, collisionGroupPredicate)
        returns == {k \in 1..Len(centres) : Collided(k) /\ ~showCollisionCircles}
    IN  IF ~geometry.present \/ overlapMode = "always" THEN 0
        ELSE IF returns = {} THEN Len(centres)
        ELSE CHOOSE k \in returns : \A k2 \in returns : k <= k2

\* A call of insertCollisionCircles without placedCircles (null or undefined).
NoPlacedCircles == [missing |-> TRUE]

\* Variant: the glyph hit of a circle is looked up by the circle's offset
\* k in the flat array instead of by k / 4.
insertCollisionCircles_flatOffset(g, ig, placedCircles, overlapMode, ignorePlacement, bucketInstanceId, featureIndex, collisionGroupID) ==
    LET circles == placedCircles.circles
        hits == placedCircles.glyphHits
        HasHit(k) == \E h \in 1..Len(hits) : hits[h].circleIndex = k
        Hit(k) == hits[CHOOSE h \in 1..Len(hits) : hits[h].circleIndex = k]
        Key(k) ==
            [bucketInstanceId |-> bucketInstanceId, featureIndex |-> featureIndex,
             collisionGroupID |-> collisionGroupID, overlapMode |-> overlapMode,
             collisionCircleIndex |-> IF HasHit(k) THEN Hit(k).circleIndex ELSE undefined,
             glyphArrayIndex |-> IF HasHit(k) THEN Hit(k).glyphArrayIndex ELSE undefined,
             glyphCharCode |-> IF HasHit(k) THEN Hit(k).glyphCharCode ELSE undefined]
        count == CeilDiv(Len(circles), 4)
        entries == [n \in 1..count |->
                       CircleEntry(Key(4 * (n - 1)), circles[4 * n - 3], circles[4 * n - 2],
                                   circles[4 * n - 1])]
    IN  IF placedCircles = NoPlacedCircles \/ Len(circles) = 0
        THEN [grid |-> g, ignoredGrid |-> ig]
        ELSE IF ignorePlacement THEN [grid |-> g, ignoredGrid |-> ig \o entries]
        ELSE [grid |-> g \o entries, ignoredGrid |-> ig]

insertCollisionCircles(g, ig, placedCircles, overlapMode, ignorePlacement, bucketInstanceId, featureIndex, collisionGroupID) ==
    LET circles == placedCircles.circles
        hits == placedCircles.glyphHits
        \* glyphHitMap.get(circleIndex): the last hit recorded for the circle
        HasHit(circleIndex) == \E h \in 1..Len(hits) : hits[h].circleIndex = circleIndex
        Hit(circleIndex) ==
            hits[CHOOSE h \in 1..Len(hits) :
                    /\ hits[h].circleIndex = circleIndex
                    /\ \A h2 \in (h + 1)..Len(hits) : hits[h2].circleIndex # circleIndex]
        Key(circleIndex) ==
            [bucketInstanceId |-> bucketInstanceId, featureIndex |-> featureIndex,
             collisionGroupID |-> collisionGroupID, overlapMode |-> overlapMode,
             collisionCircleIndex |->
                 IF HasHit(circleIndex) THEN Hit(circleIndex).circleIndex ELSE undefined,
             glyphArrayIndex |->
                 IF HasHit(circleIndex) THEN Hit(circleIndex).glyphArrayIndex ELSE undefined,
             glyphCharCode |->
                 IF HasHit(circleIndex) THEN Hit(circleIndex).glyphCharCode ELSE undefined]
        \* the loop k = 0, 4, 8, ... while k < circles.length
        count == CeilDiv(Len(circles), 4)
        entries == [n \in 1..count |->
                       CircleEntry(Key(n - 1), circles[4 * n - 3], circles[4 * n - 2],
                                   circles[4 * n - 1])]
    IN  IF placedCircles = NoPlacedCircles \/ Len(circles) = 0
        THEN [grid |-> g, ignoredGrid |-> ig]
        ELSE IF ignorePlacement THEN [grid |-> g, ignoredGrid |-> ig \o entries]
        ELSE [grid |-> g \o entries, ignoredGrid |-> ig]

(***************************************************************************)
(* The symbols the layout pipeline hands to the index.  Each is a          *)
(* collision box with its tile, its alignment flags, its overlap mode and  *)
(* its collision group (the id stored in the key and the predicate used    *)
(* when placing).                                                          *)
(***************************************************************************)
Tile(id) == CHOOSE t \in Tiles : t.id = id

CBox(ax, ay) == [anchorPointX |-> ax, anchorPointY |-> ay,
                 x1 |-> -40, y1 |-> -20, x2 |-> 40, y2 |-> 20]

BoxSymbol(name, cb, mode, group, bucket, feature, tile, pitch, rotate, shift, simple, ignore) ==
    [name |-> name, collisionBox |-> cb, overlapMode |-> mode,
     collisionGroupID |-> group, predicate |-> group, ignorePlacement |-> ignore,
     bucketInstanceId |-> bucket, featureIndex |-> feature, tile |-> tile,
     pitchWithMap |-> pitch, rotateWithMap |-> rotate, shift |-> shift,
     simpleProjectionMatrix |-> simple, textPixelRatio |-> 1, translation |-> <<0, 0>>]

BoxSymbols ==
    { BoxSymbol("A",       CBox(100, 100),  "cooperative", 0, 7, 11, "near", FALSE, FALSE, NoShift, FALSE, FALSE),
      BoxSymbol("B",       CBox(130, 100),  "cooperative", 0, 7, 12, "near", FALSE, FALSE, NoShift, TRUE,  FALSE),
      BoxSymbol("Always",  CBox(130, 100),  "always",      0, 7, 11, "near", FALSE, FALSE, NoShift, FALSE, FALSE),
      BoxSymbol("Group",   CBox(130, 100),  "never",       1, 8, 13, "near", FALSE, FALSE, NoShift, FALSE, FALSE),
      BoxSymbol("Ignored", CBox(100, 100),  "cooperative", 0, 7, 11, "near", FALSE, FALSE, NoShift, FALSE, TRUE),
      BoxSymbol("Left",    CBox(-60, 100),  "cooperative", 0, 7, 14, "near", TRUE,  TRUE,  NoShift, FALSE, FALSE),
      BoxSymbol("Out",     CBox(-160, 100), "always",      0, 7, 15, "near", FALSE, FALSE, NoShift, FALSE, FALSE),
      BoxSymbol("Far",     CBox(100, 100),  "always",      0, 7, 16, "far",  FALSE, FALSE, NoShift, FALSE, FALSE),
      BoxSymbol("Edge",    CBox(100, 100),  "cooperative", 0, 7, 17, "edge", TRUE,  FALSE, NoShift, FALSE, FALSE),
      BoxSymbol("Hidden",  CBox(100, 100),  "always",      0, 7, 18, "back", TRUE,  FALSE, NoShift, FALSE, FALSE),
      BoxSymbol("Anchor",  CBox(100, 50),   "always",      0, 7, 19, "edge", FALSE, FALSE, NoShift, FALSE, FALSE),
      BoxSymbol("Turn",    CBox(100, 100),  "cooperative", 0, 7, 20, "turn", FALSE, TRUE,
                [present |-> TRUE, x |-> 0, y |-> -80], FALSE, FALSE) }

BoxSymbolNames == {s.name : s \in BoxSymbols}

BoxSym(name) == CHOOSE s \in BoxSymbols : s.name = name

\* The projection of every box symbol under the transform snapshot.
BoxProjection ==
    [name \in BoxSymbolNames |->
        LET s == BoxSym(name)
        IN  projectBox(s.collisionBox, s.textPixelRatio, Tile(s.tile), s.pitchWithMap,
                       s.rotateWithMap, s.translation, s.shift, s.simpleProjectionMatrix)]

PlaceBox(g, s) ==
    placeCollisionBox(g, BoxProjection[s.name], s.overlapMode, s.pitchWithMap, s.predicate)

Pt(x, y) == [x |-> x, y |-> y]

Glyph(code, point, flipped, placed) ==
    [glyphCharCode |-> code, point |-> point, flippedPoint |-> flipped, placed |-> placed]

\* A line label: the placed-symbol record, its glyphs, and what the glyph
\* placement routine returns for its first and last glyph.
LineSymbol(name, mode, group, feature, tile, show, pitch, upright, ignore, writingMode, anchor, firstPath, lastPath, glyphStartIndex, glyphs) ==
    [name |-> name, overlapMode |-> mode, collisionGroupID |-> group, predicate |-> group,
     ignorePlacement |-> ignore, bucketInstanceId |-> 7, featureIndex |-> feature,
     tile |-> tile, showCollisionCircles |-> show, pitchWithMap |-> pitch,
     keepUpright |-> upright, circlePixelDiameter |-> 32, textPixelPadding |-> 0,
     symbol |-> [anchorX |-> anchor.x, anchorY |-> anchor.y, writingMode |-> writingMode,
                 numGlyphs |-> Len(glyphs), lineLength |-> Len(firstPath) + Len(lastPath),
                 glyphStartIndex |-> glyphStartIndex],
     glyphs |-> glyphs,
     firstAndLastGlyph |->
         [present |-> firstPath # <<>>,
          first |-> [point |-> IF firstPath = <<>> THEN anchor ELSE firstPath[Len(firstPath)],
                     path |-> <<anchor>> \o firstPath],
          last |-> [point |-> IF lastPath = <<>> THEN anchor ELSE lastPath[Len(lastPath)],
                    path |-> <<anchor>> \o lastPath]]]

LineSymbols ==
    { LineSymbol("Road", "cooperative", 0, 11, "near", FALSE, FALSE, TRUE, FALSE,
                 WritingModeHorizontal, Pt(68, 100), <<Pt(60, 100)>>, <<Pt(76, 100)>>, 3,
                 <<Glyph(119, Pt(64, 100), Pt(72, 100), TRUE),
                   Glyph(97, Pt(68, 100), Pt(68, 100), TRUE),
                   Glyph(110, Pt(72, 100), Pt(64, 100), TRUE)>>),
      LineSymbol("Show", "never", 0, 12, "near", TRUE, FALSE, FALSE, FALSE,
                 WritingModeHorizontal, Pt(68, 100), <<Pt(60, 100)>>, <<Pt(76, 100)>>, 0,
                 <<Glyph(115, Pt(68, 100), Pt(68, 100), TRUE)>>),
      LineSymbol("Street", "always", 0, 11, "near", FALSE, FALSE, TRUE, FALSE,
                 WritingModeVertical, Pt(150, 28), <<Pt(150, 20)>>, <<Pt(150, 36)>>, 9,
                 <<Glyph(97, Pt(150, 24), Pt(150, 32), TRUE),
                   Glyph(115, Pt(150, 28), Pt(150, 28), TRUE),
                   Glyph(57655, Pt(150, 32), Pt(150, 24), FALSE)>>),
      LineSymbol("Upright", "cooperative", 0, 13, "near", FALSE, FALSE, TRUE, FALSE,
                 WritingModeHorizontal, Pt(150, 28), <<Pt(150, 26)>>, <<Pt(150, 30)>>, 0,
                 <<Glyph(119, Pt(150, 28), Pt(150, 28), TRUE)>>),
      LineSymbol("Clip", "cooperative", 0, 14, "near", FALSE, FALSE, FALSE, TRUE,
                 WritingModeHorizontal, Pt(-110, 150), <<Pt(-140, 150)>>, <<Pt(-80, 150)>>, 0,
                 <<Glyph(97, Pt(-90, 150), Pt(-90, 150), TRUE),
                   Glyph(115, Pt(-90, 126), Pt(-90, 126), TRUE)>>),
      LineSymbol("Steep", "cooperative", 0, 15, "steep", FALSE, TRUE, FALSE, FALSE,
                 WritingModeHorizontal, Pt(60, 120), <<Pt(60, 90)>>, <<Pt(60, 130)>>, 0,
                 <<Glyph(119, Pt(60, 120), Pt(60, 120), TRUE)>>),
      LineSymbol("Globe", "cooperative", 1, 16, "globe", FALSE, TRUE, FALSE, FALSE,
                 WritingModeHorizontal, Pt(60, 105), <<Pt(60, 100), Pt(60, 80)>>, <<Pt(60, 130)>>, 0,
                 <<Glyph(110, Pt(60, 90), Pt(60, 90), TRUE),
                   Glyph(110, Pt(60, 110), Pt(60, 110), TRUE)>>),
      [LineSymbol("Faint", "cooperative", 0, 18, "far", FALSE, FALSE, FALSE, FALSE,
                  WritingModeHorizontal, Pt(110, 40), <<Pt(102, 40)>>, <<Pt(118, 40)>>, 0,
                  <<Glyph(119, Pt(110, 40), Pt(110, 40), TRUE)>>)
          EXCEPT !.circlePixelDiameter = 320],
      [LineSymbol("Dim", "never", 0, 20, "far", TRUE, FALSE, FALSE, FALSE,
                  WritingModeHorizontal, Pt(110, 40), <<Pt(102, 40)>>, <<Pt(118, 40)>>, 0,
                  <<Glyph(119, Pt(110, 40), Pt(110, 40), TRUE)>>)
          EXCEPT !.circlePixelDiameter = 320],
      LineSymbol("Astray", "cooperative", 0, 19, "near", FALSE, FALSE, FALSE, FALSE,
                 WritingModeHorizontal, Pt(-240, 150), <<Pt(-250, 150)>>, <<Pt(-230, 150)>>, 0,
                 <<Glyph(119, Pt(-240, 150), Pt(-240, 150), TRUE)>>),
      LineSymbol("Lost", "cooperative", 0, 17, "near", FALSE, FALSE, FALSE, FALSE,
                 WritingModeHorizontal, Pt(68, 100), <<>>, <<>>, 0,
                 <<Glyph(119, Pt(68, 100), Pt(68, 100), TRUE)>>) }

LineSym(name) == CHOOSE l \in LineSymbols : l.name = name

LineSymbolNames == {l.name : l \in LineSymbols}

\* The circle geometry of every line label under the transform snapshot.
CircleGeometry ==
    [name \in LineSymbolNames |->
        LET l == LineSym(name)
        IN  circleGeometry(l.symbol, l.glyphs, l.firstAndLastGlyph, Tile(l.tile),
                           l.pitchWithMap, l.keepUpright, l.circlePixelDiameter,
                           l.textPixelPadding)]

PlaceCircles(g, l) ==
    placeCollisionCircles(g, CircleGeometry[l.name], l.overlapMode, l.showCollisionCircles,
                          l.predicate)

(***************************************************************************)
(* queryRenderedSymbols.  The query polygons of the model are rectangles   *)
(* with sides along the axes, given by their corner points.                *)
(***************************************************************************)
polygonIntersectsPolygon(a, b) ==
    LET ba == getAABB(a)
        bb == getAABB(b)
    IN  BoxesCollide(ba[1], ba[2], ba[3], ba[4], bb[1], bb[2], bb[3], bb[4])

BucketIds == {7, 8}

NoMatches == [b \in BucketIds |-> <<>>]

RECURSIVE QueryFeatures(_, _, _, _, _)
QueryFeatures(features, query, seenBoxes, seenCircles, result) ==
    IF features = <<>> THEN result
    ELSE LET feature == Head(features)
             featureKey == feature.key
             bucketId == featureKey.bucketInstanceId
             bbox == <<Pt(feature.x1, feature.y1), Pt(feature.x2, feature.y1),
                       Pt(feature.x2, feature.y2), Pt(feature.x1, feature.y2)>>
             hasCircleIndex == featureKey.collisionCircleIndex # undefined
             boxSeen == <<bucketId, featureKey.featureIndex>>
             circleSeen == <<bucketId, featureKey.featureIndex, featureKey.collisionCircleIndex>>
             entry == [featureIndex |-> featureKey.featureIndex,
                       collisionCircleIndex |->
                           IF hasCircleIndex THEN featureKey.collisionCircleIndex ELSE undefined,
                       glyphArrayIndex |->
                           IF hasCircleIndex THEN featureKey.glyphArrayIndex ELSE undefined,
                       glyphCharCode |->
                           IF hasCircleIndex THEN featureKey.glyphCharCode ELSE undefined]
         IN  IF ~polygonIntersectsPolygon(query, bbox)
             THEN QueryFeatures(Tail(features), query, seenBoxes, seenCircles, result)
             ELSE IF hasCircleIndex /\ circleSeen \in seenCircles
             THEN QueryFeatures(Tail(features), query, seenBoxes, seenCircles, result)
             ELSE IF ~hasCircleIndex /\ boxSeen \in seenBoxes
             THEN QueryFeatures(Tail(features), query, seenBoxes, seenCircles, result)
             ELSE QueryFeatures(Tail(features), query,
                                IF hasCircleIndex THEN seenBoxes ELSE seenBoxes \cup {boxSeen},
                                IF hasCircleIndex THEN seenCircles \cup {circleSeen}
                                ELSE seenCircles,
                                [result EXCEPT ![bucketId] = Append(@, entry)])

\* Variant: every intersecting entry is reported, seen before or not.
queryRenderedSymbols_noDedup(g, ig, viewportQueryGeometry) ==
    IF Len(viewportQueryGeometry) = 0 \/ (keysLength(g) = 0 /\ keysLength(ig) = 0)
    THEN NoMatches
    ELSE LET query == [k \in 1..Len(viewportQueryGeometry) |->
                          Pt(viewportQueryGeometry[k].x + viewportPadding,
                             viewportQueryGeometry[k].y + viewportPadding)]
             bounds == getAABB(query)
             features == GridQuery(g, bounds[1], bounds[2], bounds[3], bounds[4])
                         \o GridQuery(ig, bounds[1], bounds[2], bounds[3], bounds[4])
             Of(b) == SelectSeq(features, LAMBDA e : e.key.bucketInstanceId = b)
         IN  [b \in BucketIds |->
                 [k \in 1..Len(Of(b)) |->
                     [featureIndex |-> Of(b)[k].key.featureIndex,
                      collisionCircleIndex |-> Of(b)[k].key.collisionCircleIndex,
                      glyphArrayIndex |-> Of(b)[k].key.glyphArrayIndex,
                      glyphCharCode |-> Of(b)[k].key.glyphCharCode]]]

queryRenderedSymbols(g, ig, viewportQueryGeometry) ==
    IF Len(viewportQueryGeometry) = 0 \/ (keysLength(g) = 0 /\ keysLength(ig) = 0)
    THEN NoMatches
    ELSE LET query == [k \in 1..Len(viewportQueryGeometry) |->
                          Pt(viewportQueryGeometry[k].x + viewportPadding,
                             viewportQueryGeometry[k].y + viewportPadding)]
             bounds == getAABB(query)
             features == GridQuery(g, bounds[1], bounds[2], bounds[3], bounds[4])
                         \o GridQuery(ig, bounds[1], bounds[2], bounds[3], bounds[4])
         IN  QueryFeatures(features, query, {}, {}, NoMatches)

Rect(x1, y1, x2, y2) == <<Pt(x1, y1), Pt(x2, y1), Pt(x2, y2), Pt(x1, y2)>>

\* The whole screen, the neighbourhood of box A and of the road label, one
\* glyph of the road label, the street label, and an empty geometry.
QueryPolygons ==
    { Rect(-100, -100, 300, 300), Rect(50, 70, 150, 130), Rect(63, 99, 65, 101),
      Rect(140, 0, 160, 50), <<>> }

(***************************************************************************)
(* State.  grid and ignoredGrid are the two grids of the index; last is    *)
(* the last call and what it returned; placedTrace records, for each       *)
(* main-grid entry, the collision-group predicate it was placed with;      *)
(* inserts counts the insert calls.                                        *)
(***************************************************************************)
Init ==
    /\ grid = <<>>
    /\ ignoredGrid = <<>>
    /\ placedTrace = <<>>
    /\ inserts = 0
    /\ last = [op |-> "constructor"]

\* Variant: a box found placeable is entered into its grid by the place
\* call itself.
PlaceCollisionBox_inserting(s) ==
    LET result == PlaceBox(grid, s)
        after == insertCollisionBox(grid, ignoredGrid, result.box, s.overlapMode,
                                    s.ignorePlacement, s.bucketInstanceId, s.featureIndex,
                                    s.collisionGroupID)
        enters == result.placeable /\ inserts < MaxInserts
    IN  /\ last' = [op |-> "placeCollisionBox", symbol |-> s.name, result |-> result]
        /\ grid' = IF enters THEN after.grid ELSE grid
        /\ ignoredGrid' = IF enters THEN after.ignoredGrid ELSE ignoredGrid
        /\ placedTrace' = IF enters /\ ~s.ignorePlacement
                          THEN Append(placedTrace, s.predicate) ELSE placedTrace
        /\ inserts' = IF enters THEN inserts + 1 ELSE inserts

PlaceCollisionBox(s) ==
    /\ last' = [op |-> "placeCollisionBox", symbol |-> s.name, result |-> PlaceBox(grid, s)]
    /\ UNCHANGED <<grid, ignoredGrid, placedTrace, inserts>>

\* The second step of an insertion: the caller inserts the box the place
\* call before it returned, when that call found room for it.
InsertCollisionBox ==
    /\ last.op = "placeCollisionBox"
    /\ last.result.placeable
    /\ inserts < MaxInserts
    /\ LET s == BoxSym(last.symbol)
           after == insertCollisionBox(grid, ignoredGrid, last.result.box, s.overlapMode,
                                       s.ignorePlacement, s.bucketInstanceId, s.featureIndex,
                                       s.collisionGroupID)
       IN  /\ grid' = after.grid
           /\ ignoredGrid' = after.ignoredGrid
           /\ placedTrace' = IF s.ignorePlacement THEN placedTrace
                             ELSE Append(placedTrace, s.predicate)
    /\ inserts' = inserts + 1
    /\ last' = [op |-> "insertCollisionBox", symbol |-> last.symbol]

\* Variant: the hit tests may run against a grid that does not hold the
\* entries inserted so far.
PlaceCollisionCircles_staleGrid(l) ==
    /\ \E g \in {grid, <<>>} :
           last' = [op |-> "placeCollisionCircles", symbol |-> l.name,
                    result |-> PlaceCircles(g, l)]
    /\ UNCHANGED <<grid, ignoredGrid, placedTrace, inserts>>

PlaceCollisionCircles(l) ==
    /\ last' = [op |-> "placeCollisionCircles", symbol |-> l.name,
                result |-> PlaceCircles(grid, l)]
    /\ UNCHANGED <<grid, ignoredGrid, placedTrace, inserts>>

\* The caller inserts the circles the place call before it returned, when
\* that call detected no collision.
InsertCollisionCircles ==
    /\ last.op = "placeCollisionCircles"
    /\ ~last.result.collisionDetected
    /\ inserts < MaxInserts
    /\ LET l == LineSym(last.symbol)
           after == insertCollisionCircles(grid, ignoredGrid, last.result, l.overlapMode,
                                           l.ignorePlacement, l.bucketInstanceId,
                                           l.featureIndex, l.collisionGroupID)
       IN  /\ grid' = after.grid
           /\ ignoredGrid' = after.ignoredGrid
           /\ placedTrace' = placedTrace \o
                                 [k \in 1..(Len(after.grid) - Len(grid)) |-> l.predicate]
    /\ inserts' = inserts + 1
    /\ last' = [op |-> "insertCollisionCircles", symbol |-> last.symbol,
                placed |-> last.result]

\* insertCollisionCircles for a label that has no placed circles to hand over.
InsertNoCircles(l) ==
    /\ LET after == insertCollisionCircles(grid, ignoredGrid, NoPlacedCircles, l.overlapMode,
                                           l.ignorePlacement, l.bucketInstanceId,
                                           l.featureIndex, l.collisionGroupID)
       IN  /\ grid' = after.grid
           /\ ignoredGrid' = after.ignoredGrid
    /\ last' = [op |-> "insertCollisionCircles", symbol |-> l.name,
                placed |-> NoPlacedCircles]
    /\ UNCHANGED <<placedTrace, inserts>>

QueryRenderedSymbols(polygon) ==
    /\ last' = [op |-> "queryRenderedSymbols", polygon |-> polygon,
                result |-> queryRenderedSymbols(grid, ignoredGrid, polygon)]
    /\ UNCHANGED <<grid, ignoredGrid, placedTrace, inserts>>

Next ==
    \/ \E s \in BoxSymbols : PlaceCollisionBox(s)
    \/ InsertCollisionBox
    \/ \E l \in LineSymbols : PlaceCollisionCircles(l)
    \/ \E l \in {LineSym("Road"), LineSym("Clip")} : InsertNoCircles(l)
    \/ InsertCollisionCircles
    \/ \E polygon \in QueryPolygons : QueryRenderedSymbols(polygon)

Spec == Init /\ [][Next]_vars

(***************************************************************************)
(* Vocabulary of the properties.                                           *)
(***************************************************************************)
BoxOf(s) == BoxProjection[s.name].projectedBox.box

\* The box can be placed as far as the transform is concerned: it is not
\* occluded, it is not too small and it reaches into the grid.
Eligible(s) ==
    LET p == BoxProjection[s.name]
    IN  /\ ~(IF s.pitchWithMap THEN p.projectedBox.allPointsOccluded
             ELSE p.projectedPoint.isOccluded)
        /\ p.projectedPoint.perspectiveRatio >= perspectiveRatioCutoff
        /\ isInsideGrid(BoxOf(s)[1], BoxOf(s)[2], BoxOf(s)[3], BoxOf(s)[4])

\* Two entries of a grid overlap.
EntriesCollide(a, b) ==
    IF a.shape = "box"
    THEN IF b.shape = "box"
         THEN BoxesCollide(a.x1, a.y1, a.x2, a.y2, b.x1, b.y1, b.x2, b.y2)
         ELSE CircleAndRectCollide(b.x, b.y, b.radius, a.x1, a.y1, a.x2, a.y2)
    ELSE IF b.shape = "box"
         THEN CircleAndRectCollide(a.x, a.y, a.radius, b.x1, b.y1, b.x2, b.y2)
         ELSE CirclesCollide(a.x, a.y, a.radius, b.x, b.y, b.radius)

\* The entry insertCollisionBox makes of the box of s.
GridEntryOf(s) ==
    BoxEntry([bucketInstanceId |-> s.bucketInstanceId, featureIndex |-> s.featureIndex,
              collisionGroupID |-> s.collisionGroupID, overlapMode |-> s.overlapMode,
              collisionCircleIndex |-> undefined, glyphArrayIndex |-> undefined,
              glyphCharCode |-> undefined],
             BoxOf(s)[1], BoxOf(s)[2], BoxOf(s)[3], BoxOf(s)[4])

\* Some entry of g that the predicate of s matches overlaps the box of s.
Blocked(g, s) ==
    \E i \in 1..Len(g) : Matches(s.predicate, g[i].key) /\ EntriesCollide(GridEntryOf(s), g[i])

PlacedBox == last.op = "placeCollisionBox"
PlacedCircles == last.op = "placeCollisionCircles"
Queried == last.op = "queryRenderedSymbols" /\ last.polygon # <<>>

(***************************************************************************)
(* C1.  Under the place-then-insert protocol, no box of the main grid that *)
(* was placed with an overlap mode other than 'always' overlaps an entry   *)
(* inserted before it whose key the box's collision-group predicate        *)
(* matches.                                                                *)
(***************************************************************************)
C1_NoOverlapWithEarlier ==
    \A j \in 1..Len(grid) :
        (grid[j].shape = "box" /\ grid[j].key.overlapMode # "always") =>
            \A i \in 1..(j - 1) :
                ~(Matches(placedTrace[j], grid[i].key) /\ EntriesCollide(grid[j], grid[i]))

\* A 'never' or 'cooperative' box was inserted after an entry of its group
\* and after an overlapping entry of another group.
C1_Witness ==
    /\ Len(grid) = 2
    /\ grid[2].shape = "box"
    /\ grid[2].key.overlapMode # "always"
    /\ EntriesCollide(grid[2], grid[1])
    /\ ~Matches(placedTrace[2], grid[1].key)

(***************************************************************************)
(* C2.  For two overlapping, eligible 'cooperative' boxes of one collision *)
(* group: on the empty index either is placeable, and once one of them has *)
(* been placed and inserted the other is rejected, whichever went first.   *)
(***************************************************************************)
CooperativePairs ==
    { pair \in BoxSymbols \X BoxSymbols :
        /\ pair[1].name # pair[2].name
        /\ pair[1].overlapMode = "cooperative" /\ pair[2].overlapMode = "cooperative"
        /\ ~pair[1].ignorePlacement /\ ~pair[2].ignorePlacement
        /\ pair[1].collisionGroupID = pair[2].collisionGroupID
        /\ Eligible(pair[1]) /\ Eligible(pair[2])
        /\ EntriesCollide(GridEntryOf(pair[1]), GridEntryOf(pair[2])) }

C2_OrderSensitive ==
    \A pair \in CooperativePairs :
        /\ (PlacedBox /\ grid = <<>> /\ last.symbol = pair[1].name) => last.result.placeable
        /\ (PlacedBox /\ grid = <<GridEntryOf(pair[1])>> /\ last.symbol = pair[2].name)
               => ~last.result.placeable

\* B went first and A is rejected; with A first it is B that is rejected.
C2_Witness ==
    /\ PlacedBox
    /\ grid = <<GridEntryOf(BoxSym("B"))>>
    /\ last.symbol = "A"
    /\ ~last.result.placeable
    /\ <<BoxSym("A"), BoxSym("B")>> \in CooperativePairs

(***************************************************************************)
(* C3.  placeCollisionBox, placeCollisionCircles and queryRenderedSymbols  *)
(* leave both grids as they were, so a box placed right after a placeable  *)
(* box that it overlaps, with no insert in between, is still placeable     *)
(* when nothing inserted before blocks it.                                 *)
(***************************************************************************)
ReadOnlyOps == {"placeCollisionBox", "placeCollisionCircles", "queryRenderedSymbols"}

C3_PlacementReadOnly ==
    [][ /\ (last'.op \in ReadOnlyOps) => (grid' = grid /\ ignoredGrid' = ignoredGrid)
        /\ ( /\ PlacedBox
             /\ last.result.placeable
             /\ last'.op = "placeCollisionBox"
             /\ EntriesCollide(GridEntryOf(BoxSym(last.symbol)), GridEntryOf(BoxSym(last'.symbol)))
             /\ Eligible(BoxSym(last'.symbol))
             /\ ~Blocked(grid, BoxSym(last'.symbol)) )
           => last'.result.placeable ]_vars

\* Nothing has been inserted, B has just been found placeable and A, which
\* it overlaps, is placeable too.
C3_Witness ==
    /\ PlacedBox
    /\ last.symbol = "B"
    /\ last.result.placeable
    /\ grid = <<>> /\ ignoredGrid = <<>> /\ inserts = 0
    /\ EntriesCollide(GridEntryOf(BoxSym("A")), GridEntryOf(BoxSym("B")))
    /\ PlaceBox(grid, BoxSym("A")).placeable

(***************************************************************************)
(* C4.  An eligible box placed with overlap mode 'always' is placeable     *)
(* whatever the main grid holds; once it is inserted, a box of another     *)
(* overlap mode that overlaps it and whose predicate matches its key is    *)
(* rejected.                                                               *)
(***************************************************************************)
C4_AlwaysOverlaps ==
    PlacedBox =>
        LET s == BoxSym(last.symbol)
        IN  /\ (s.overlapMode = "always" /\ Eligible(s)) => last.result.placeable
            /\ ( /\ s.overlapMode # "always"
                 /\ \E i \in 1..Len(grid) :
                        /\ grid[i].shape = "box"
                        /\ grid[i].key.overlapMode = "always"
                        /\ Matches(s.predicate, grid[i].key)
                        /\ EntriesCollide(GridEntryOf(s), grid[i]) )
               => ~last.result.placeable

\* The 'always' box went in on top of A; Turn, which overlaps only the
\* 'always' box, is rejected.
C4_Witness ==
    /\ Len(grid) = 2
    /\ grid[2].shape = "box"
    /\ grid[2].key.overlapMode = "always"
    /\ EntriesCollide(grid[2], grid[1])
    /\ Matches(placedTrace[2], grid[1].key)
    /\ PlacedBox
    /\ BoxSym(last.symbol).overlapMode = "cooperative"
    /\ EntriesCollide(GridEntryOf(BoxSym(last.symbol)), grid[2])
    /\ ~EntriesCollide(GridEntryOf(BoxSym(last.symbol)), grid[1])
    /\ ~last.result.placeable

(***************************************************************************)
(* C5.  An insert with ignorePlacement adds its entries to the ignored     *)
(* grid and leaves the main grid as it was; and a rejection is always due  *)
(* to the transform or to an entry of the main grid: an eligible box that  *)
(* no matching main-grid entry overlaps is placeable, and circles report a *)
(* collision only when a path circle overlaps a matching main-grid entry.  *)
(***************************************************************************)
CircleBlocked(g, l) ==
    LET geometry == CircleGeometry[l.name]
    IN  \E k \in 1..Len(geometry.centres), i \in 1..Len(g) :
            /\ Matches(l.predicate, g[i].key)
            /\ EntriesCollide(CircleEntry(g[i].key, geometry.centres[k].x,
                                          geometry.centres[k].y, geometry.radius), g[i])

C5_IgnoredNeverBlocks ==
    [][ /\ (last'.op = "placeCollisionBox") =>
               LET s == BoxSym(last'.symbol)
               IN  (Eligible(s) /\ ~Blocked(grid', s)) => last'.result.placeable
        /\ (last'.op = "placeCollisionCircles") =>
               LET l == LineSym(last'.symbol)
               IN  last'.result.collisionDetected =>
                       (l.overlapMode # "always" /\ CircleBlocked(grid', l))
        /\ (PlacedBox /\ last'.op = "insertCollisionBox"
                /\ BoxSym(last'.symbol).ignorePlacement) =>
               /\ grid' = grid
               /\ ignoredGrid' = Append(ignoredGrid, GridEntryOf(BoxSym(last'.symbol)))
        /\ (PlacedCircles /\ last'.op = "insertCollisionCircles"
                /\ last'.placed = last.result
                /\ LineSym(last'.symbol).ignorePlacement) =>
               /\ grid' = grid
               /\ Len(ignoredGrid') = Len(ignoredGrid) + Len(last.result.circles) \div 4
      ]_vars

\* An ignored entry lies under box A's place, and A is placeable.
C5_Witness ==
    /\ PlacedBox
    /\ BoxSym(last.symbol).overlapMode = "cooperative"
    /\ \E i \in 1..Len(ignoredGrid) :
           /\ Matches(BoxSym(last.symbol).predicate, ignoredGrid[i].key)
           /\ EntriesCollide(GridEntryOf(BoxSym(last.symbol)), ignoredGrid[i])
    /\ last.result.placeable

(***************************************************************************)
(* C6.  A box whose anchor projects with a perspective ratio below the     *)
(* cutoff 0.6 is not placeable, for every overlap mode, every predicate    *)
(* and every content of the grids.                                         *)
(***************************************************************************)
TooSmall(s) == BoxProjection[s.name].projectedPoint.perspectiveRatio < perspectiveRatioCutoff

C6_CutoffRejects ==
    /\ (PlacedBox /\ TooSmall(BoxSym(last.symbol))) => ~last.result.placeable
    /\ \A s \in BoxSymbols, mode \in OverlapModes, predicate \in {NoPredicate, 1} :
           TooSmall(s) =>
               ~placeCollisionBox(grid, BoxProjection[s.name], mode, s.pitchWithMap,
                                  predicate).placeable

\* The far box, placed with 'always' on a grid that holds entries.
C6_Witness ==
    /\ PlacedBox
    /\ TooSmall(BoxSym(last.symbol))
    /\ BoxSym(last.symbol).overlapMode = "always"
    /\ ~last.result.occluded
    /\ isInsideGrid(last.result.box[1], last.result.box[2], last.result.box[3], last.result.box[4])
    /\ Len(grid) > 0
    /\ ~last.result.placeable

(***************************************************************************)
(* C7, as stated.  Whatever the placement decision, placeCollisionBox      *)
(* reports offscreen = true exactly for a box that lies entirely outside   *)
(* the padded screen rectangle.                                            *)
(***************************************************************************)
OutsideScreen(box) == isOffscreen(box[1], box[2], box[3], box[4])

C7_OffscreenIndependent ==
    PlacedBox => (last.result.offscreen = OutsideScreen(last.result.box))

(***************************************************************************)
(* C7, amended.  placeCollisionBox computes offscreen for the boxes it     *)
(* finds placeable only: a placeable box reports offscreen = true exactly  *)
(* when it lies entirely outside the padded screen rectangle, and every    *)
(* rejected box reports offscreen = false wherever it lies.                *)
(***************************************************************************)
C7_OffscreenOnlyWhenPlaceable ==
    PlacedBox =>
        (last.result.offscreen = (last.result.placeable /\ OutsideScreen(last.result.box)))

\* A box outside the screen that was rejected for colliding inside the grid.
C7_Witness ==
    /\ PlacedBox
    /\ OutsideScreen(last.result.box)
    /\ Eligible(BoxSym(last.symbol))
    /\ ~last.result.placeable
    /\ ~last.result.offscreen

(***************************************************************************)
(* C8.  A pitch-aligned box is occluded exactly when all eight of its      *)
(* projected perimeter points are occluded, so with one visible point it   *)
(* is not occluded and is placed when nothing else rejects it; a box that  *)
(* is not pitch-aligned is occluded exactly when its anchor is.  An        *)
(* occluded box is not placeable.                                          *)
(***************************************************************************)
PerimeterOccluded(s) ==
    LET p == BoxProjection[s.name].projectedPoint
        points == collisionBoxPerimeter(s.collisionBox, s.textPixelRatio * p.perspectiveRatio,
                                        Tile(s.tile), s.pitchWithMap, s.rotateWithMap,
                                        s.translation, p, s.shift, s.simpleProjectionMatrix)
    IN  [i \in 1..8 |->
            projectAndGetPerspectiveRatio(points[i].x, points[i].y, Tile(s.tile),
                                          s.simpleProjectionMatrix).isOccluded]

C8_OcclusionRule ==
    PlacedBox =>
        LET s == BoxSym(last.symbol)
            box == last.result.box
        IN  /\ s.pitchWithMap =>
                   (last.result.occluded <=> \A i \in 1..8 : PerimeterOccluded(s)[i])
            /\ ~s.pitchWithMap =>
                   (last.result.occluded <=> BoxProjection[s.name].projectedPoint.isOccluded)
            /\ last.result.occluded => ~last.result.placeable
            /\ ( /\ s.pitchWithMap
                 /\ \E i \in 1..8 : ~PerimeterOccluded(s)[i]
                 /\ ~TooSmall(s)
                 /\ isInsideGrid(box[1], box[2], box[3], box[4])
                 /\ ~Blocked(grid, s) )
               => last.result.placeable

\* A pitch-aligned box with hidden and visible perimeter points, placed.
C8_Witness ==
    /\ PlacedBox
    /\ BoxSym(last.symbol).pitchWithMap
    /\ \E i \in 1..8 : PerimeterOccluded(BoxSym(last.symbol))[i]
    /\ \E i \in 1..8 : ~PerimeterOccluded(BoxSym(last.symbol))[i]
    /\ ~last.result.occluded
    /\ last.result.placeable

(***************************************************************************)
(* Vocabulary of the query properties.                                     *)
(***************************************************************************)
AllEntries == grid \o ignoredGrid

\* The entry's bounding box meets the query polygon.
Meets(e, polygon) ==
    polygonIntersectsPolygon(
        [k \in 1..Len(polygon) |-> Pt(polygon[k].x + viewportPadding,
                                      polygon[k].y + viewportPadding)],
        Rect(e.x1, e.y1, e.x2, e.y2))

HasGlyphHit(e) == e.key.collisionCircleIndex # undefined

SameCircle(e, f) ==
    /\ e.key.bucketInstanceId = f.key.bucketInstanceId
    /\ e.key.featureIndex = f.key.featureIndex
    /\ e.key.collisionCircleIndex = f.key.collisionCircleIndex

\* The positions in the result of the matches for the circle of entry e.
MatchesFor(e) ==
    LET matches == last.result[e.key.bucketInstanceId]
    IN  { i \in 1..Len(matches) :
            /\ matches[i].featureIndex = e.key.featureIndex
            /\ matches[i].collisionCircleIndex = e.key.collisionCircleIndex }

CarriesGlyphOf(e, i) ==
    LET match == last.result[e.key.bucketInstanceId][i]
    IN  /\ match.glyphArrayIndex = e.key.glyphArrayIndex
        /\ match.glyphCharCode = e.key.glyphCharCode

\* The entries insertCollisionCircles has just added, the last of their
\* grid, carry at each circle index of a glyph hit the hit's circle index,
\* glyph index and character.
InsertedWithHits ==
    (last.op = "insertCollisionCircles" /\ last.placed # NoPlacedCircles
        /\ Len(last.placed.circles) > 0) =>
        LET target == IF LineSym(last.symbol).ignorePlacement THEN ignoredGrid ELSE grid
            before == Len(target) - Len(last.placed.circles) \div 4
        IN  \A h \in 1..Len(last.placed.glyphHits) :
                LET hit == last.placed.glyphHits[h]
                    e == target[before + hit.circleIndex + 1]
                IN  /\ e.shape = "circle"
                    /\ e.x = last.placed.circles[4 * hit.circleIndex + 1]
                    /\ e.y = last.placed.circles[4 * hit.circleIndex + 2]
                    /\ e.key.collisionCircleIndex = hit.circleIndex
                    /\ e.key.glyphArrayIndex = hit.glyphArrayIndex
                    /\ e.key.glyphCharCode = hit.glyphCharCode

(***************************************************************************)
(* C9, as stated.  A query whose polygon meets the bounding square of an   *)
(* inserted circle that has a glyph hit returns, under the circle's        *)
(* bucket, exactly one match for that circle, and the match carries the    *)
(* circle's featureIndex, collisionCircleIndex, glyphArrayIndex and        *)
(* glyphCharCode.                                                          *)
(***************************************************************************)
C9_RoundTrip ==
    Queried =>
        \A k \in 1..Len(AllEntries) :
            LET e == AllEntries[k]
            IN  (HasGlyphHit(e) /\ Meets(e, last.polygon)) =>
                    Cardinality({i \in MatchesFor(e) : CarriesGlyphOf(e, i)}) = 1

(***************************************************************************)
(* C9, amended.  insertCollisionCircles stores each glyph hit in the key   *)
(* of the circle at the hit's index, and a query whose polygon meets that  *)
(* circle's bounding square returns exactly one match for the circle with  *)
(* its four fields, provided no other inserted entry with the same bucket, *)
(* featureIndex and collisionCircleIndex meets the polygon too.            *)
(***************************************************************************)
RoundTripWhenAlone ==
    Queried =>
        \A k \in 1..Len(AllEntries) :
            LET e == AllEntries[k]
            IN  ( /\ HasGlyphHit(e)
                  /\ Meets(e, last.polygon)
                  /\ \A k2 \in 1..Len(AllEntries) :
                         (k2 # k /\ SameCircle(AllEntries[k2], e))
                             => ~Meets(AllEntries[k2], last.polygon) )
                => /\ Cardinality(MatchesFor(e)) = 1
                   /\ \A i \in MatchesFor(e) : CarriesGlyphOf(e, i)

C9_RoundTripWhenAlone == InsertedWithHits /\ RoundTripWhenAlone

\* A query has returned the glyph of an inserted circle.
C9_Witness ==
    /\ Queried
    /\ \E k \in 1..Len(AllEntries) :
           /\ HasGlyphHit(AllEntries[k])
           /\ AllEntries[k].key.glyphArrayIndex # undefined
           /\ Meets(AllEntries[k], last.polygon)
           /\ \E i \in MatchesFor(AllEntries[k]) : CarriesGlyphOf(AllEntries[k], i)

(***************************************************************************)
(* C10, as stated.  Within one query result no (bucket, featureIndex) is   *)
(* reported twice for boxes and no (bucket, featureIndex, circle index)    *)
(* twice for circles; a feature inserted as several boxes that all meet    *)
(* the polygon is reported once, and a label inserted as several circles   *)
(* that all meet the polygon is reported once per circle.                  *)
(***************************************************************************)
NoMatchTwice ==
    \A b \in BucketIds :
        \A i, j \in 1..Len(last.result[b]) :
            ( /\ last.result[b][i].featureIndex = last.result[b][j].featureIndex
              /\ last.result[b][i].collisionCircleIndex = last.result[b][j].collisionCircleIndex )
            => i = j

AllOf(shape) ==
    /\ Len(AllEntries) > 1
    /\ \A k \in 1..Len(AllEntries) :
           /\ AllEntries[k].shape = shape
           /\ AllEntries[k].key.bucketInstanceId = AllEntries[1].key.bucketInstanceId
           /\ AllEntries[k].key.featureIndex = AllEntries[1].key.featureIndex
           /\ Meets(AllEntries[k], last.polygon)

C10_DedupPerCircle ==
    Queried =>
        /\ NoMatchTwice
        /\ AllOf("box") => Len(last.result[AllEntries[1].key.bucketInstanceId]) = 1
        /\ (AllOf("circle") /\ inserts = 1) =>
               Len(last.result[AllEntries[1].key.bucketInstanceId]) = Len(AllEntries)

(***************************************************************************)
(* C10, amended.  Only a circle with a glyph hit carries a circle index.   *)
(* Among the entries that meet the polygon, those with a circle index are  *)
(* reported once per (bucket, featureIndex, circle index) and all the      *)
(* others, boxes and circles without a glyph hit alike, once per (bucket,  *)
(* featureIndex); nothing else is reported and nothing twice.              *)
(***************************************************************************)
ReportedPairs(b) ==
    { <<last.result[b][i].featureIndex, last.result[b][i].collisionCircleIndex>> :
        i \in 1..Len(last.result[b]) }

MetPairs(b) ==
    { <<AllEntries[k].key.featureIndex, AllEntries[k].key.collisionCircleIndex>> :
        k \in { k \in 1..Len(AllEntries) :
                  /\ AllEntries[k].key.bucketInstanceId = b
                  /\ Meets(AllEntries[k], last.polygon) } }

C10_DedupPerKey ==
    Queried => (NoMatchTwice /\ \A b \in BucketIds : ReportedPairs(b) = MetPairs(b))

\* One label's circles all meet the polygon: its two path circles are
\* reported together, its two glyph circles one by one.
C10_Witness ==
    /\ Queried
    /\ AllOf("circle")
    /\ inserts = 1
    /\ Cardinality({k \in 1..Len(AllEntries) : ~HasGlyphHit(AllEntries[k])}) = 2
    /\ Cardinality({k \in 1..Len(AllEntries) : HasGlyphHit(AllEntries[k])}) = 2
    /\ Len(last.result[AllEntries[1].key.bucketInstanceId]) = 3

LastGeometry == CircleGeometry[last.symbol]

\* The circles of a flat circles array, as <<x, y, radius, flag>> each.
CirclesOf(flat) == [n \in 1..(Len(flat) \div 4) |->
                       <<flat[4 * n - 3], flat[4 * n - 2], flat[4 * n - 1], flat[4 * n]>>]

\* The straight test segments of the count formula and the radii tried.
MaxSegmentLength == 48
TestRadii == {4, 8}
TestSegment(length) == <<Pt(0, 0), Pt(length, 0)>>

\* max(1, ceil((L + 0.5 r) / (2.5 r)) + 1)
CountByFormula(length, radius) == Max(1, CeilDiv(2 * length + radius, 5 * radius) + 1)

\* 1 for a segment no longer than half a radius, else the formula
CountWithShortCase(length, radius) ==
    IF 2 * length <= radius THEN 1 ELSE CeilDiv(2 * length + radius, 5 * radius) + 1

RECURSIVE SumSeq(_)
SumSeq(numbers) == IF numbers = <<>> THEN 0 ELSE Head(numbers) + SumSeq(Tail(numbers))

SegmentLengths(segments) == [k \in 1..Len(segments) |-> PathLength(segments[k])]

\* The path circles of the last placed label, when it was not cut short.
PathCirclesPlaced ==
    IF Len(last.result.circles) > 0
    THEN Cardinality({n \in 1..Len(CirclesOf(last.result.circles)) :
                         CirclesOf(last.result.circles)[n][4] # 2})
    ELSE Len(LastGeometry.centres)

(***************************************************************************)
(* C12, as stated.  On every visible segment of resampled length L, with   *)
(* radius r, placeCollisionCircles samples max(1, ceil((L + 0.5r)/(2.5r))  *)
(* + 1) circles.                                                           *)
(***************************************************************************)
FormulaOnTestSegments ==
    \A length \in 0..MaxSegmentLength, radius \in TestRadii :
        Len(SegmentCircles(TestSegment(length), radius)) = CountByFormula(length, radius)

C12_CountFormula ==
    /\ FormulaOnTestSegments
    /\ (PlacedCircles /\ LastGeometry.present /\ ~last.result.collisionDetected) =>
           PathCirclesPlaced =
               SumSeq([k \in 1..Len(LastGeometry.segments) |->
                          CountByFormula(SegmentLengths(LastGeometry.segments)[k],
                                         LastGeometry.radius)])

(***************************************************************************)
(* C12, amended.  A visible segment of resampled length L <= 0.5r gets one *)
(* circle; a longer one gets ceil((L + 0.5r)/(2.5r)) + 1 circles, the      *)
(* padded length being L plus the end padding 0.25r on both ends.          *)
(***************************************************************************)
ShortCaseOnTestSegments ==
    \A length \in 0..MaxSegmentLength, radius \in TestRadii :
        Len(SegmentCircles(TestSegment(length), radius)) = CountWithShortCase(length, radius)

C12_CountWithShortCase ==
    /\ ShortCaseOnTestSegments
    /\ (PlacedCircles /\ LastGeometry.present /\ ~last.result.collisionDetected) =>
           PathCirclesPlaced =
               SumSeq([k \in 1..Len(LastGeometry.segments) |->
                          CountWithShortCase(SegmentLengths(LastGeometry.segments)[k],
                                             LastGeometry.radius)])

\* A label whose only segment is no longer than half a radius got one
\* path circle.
C12_Witness ==
    /\ PlacedCircles
    /\ Len(last.result.circles) > 0
    /\ Len(LastGeometry.segments) = 1
    /\ 2 * PathLength(LastGeometry.segments[1]) <= LastGeometry.radius
    /\ PathCirclesPlaced = 1

(***************************************************************************)
(* C13.  With debug circles off and an overlap mode other than 'always',   *)
(* the first path circle that overlaps a matching main-grid entry ends the *)
(* call: the result is circles = [], collisionDetected = true, offscreen = *)
(* false, glyphHits = [], and no circle after it is hit-tested.            *)
(***************************************************************************)
\* The path circles of label l that overlap an entry of g its predicate matches.
BlockedCircles(g, l) ==
    LET geometry == CircleGeometry[l.name]
    IN  { k \in 1..Len(geometry.centres) :
            \E i \in 1..Len(g) :
                /\ Matches(l.predicate, g[i].key)
                /\ EntriesCollide(CircleEntry(g[i].key, geometry.centres[k].x,
                                              geometry.centres[k].y, geometry.radius), g[i]) }

Aborts(g, l) ==
    /\ ~l.showCollisionCircles
    /\ l.overlapMode # "always"
    /\ CircleGeometry[l.name].present
    /\ BlockedCircles(g, l) # {}

C13_AbortOnCollision ==
    (PlacedCircles /\ Aborts(grid, LineSym(last.symbol))) =>
        LET l == LineSym(last.symbol)
        IN  /\ last.result = [circles |-> <<>>, collisionDetected |-> TRUE,
                              offscreen |-> FALSE, glyphHits |-> <<>>]
            /\ \A k \in BlockedCircles(grid, l) :
                   hitTestsMade(grid, CircleGeometry[l.name], l.overlapMode,
                                l.showCollisionCircles, l.predicate) <= k

\* The first of two path circles collides; the label has glyph hits that
\* are not returned.
C13_Witness ==
    /\ PlacedCircles
    /\ Aborts(grid, LineSym(last.symbol))
    /\ 1 \in BlockedCircles(grid, LineSym(last.symbol))
    /\ Len(LastGeometry.centres) > 1
    /\ Len(LastGeometry.glyphHits) > 0
    /\ last.result.collisionDetected
    /\ last.result.circles = <<>>

(***************************************************************************)
(* C14.  The circles array placeCollisionCircles returns is empty when a   *)
(* collision was detected with debug circles off, when no computed circle  *)
(* reaches into the grid, or when the anchor's perspective ratio is below  *)
(* the cutoff; otherwise it holds every computed circle, the path circles  *)
(* first and the special-glyph circles after them, in computation order.   *)
(***************************************************************************)
\* The circles the call computes for label l on grid g, as <<x, y, radius, flag>>.
ComputedCircles(g, l) ==
    LET geometry == CircleGeometry[l.name]
    IN  [k \in 1..Len(geometry.centres) |->
            <<geometry.centres[k].x, geometry.centres[k].y, geometry.radius,
              IF l.overlapMode # "always" /\ k \in BlockedCircles(g, l) THEN 1 ELSE 0>>]
        \o [n \in 1..Len(geometry.glyphCircles) |->
               <<geometry.glyphCircles[n].x, geometry.glyphCircles[n].y, geometry.radius, 2>>]

ReachesGrid(circle) ==
    isInsideGrid(circle[1] - circle[3], circle[2] - circle[3],
                 circle[1] + circle[3], circle[2] + circle[3])

NoneInGrid(g, l) ==
    \A k \in 1..Len(ComputedCircles(g, l)) : ~ReachesGrid(ComputedCircles(g, l)[k])

CollisionHidden(g, l) ==
    ~l.showCollisionCircles /\ l.overlapMode # "always" /\ BlockedCircles(g, l) # {}

BelowCutoff(l) == CircleGeometry[l.name].perspectiveRatio < perspectiveRatioCutoff

C14_CirclesEmptied ==
    PlacedCircles =>
        LET l == LineSym(last.symbol)
        IN  IF CollisionHidden(grid, l) \/ NoneInGrid(grid, l) \/ BelowCutoff(l)
            THEN last.result.circles = <<>>
            ELSE CirclesOf(last.result.circles) = ComputedCircles(grid, l)

\* A glyph circle was computed, no circle reaches the grid, nothing collided
\* and the anchor is large enough: the array is empty.
C14_Witness ==
    /\ PlacedCircles
    /\ Len(ComputedCircles(grid, LineSym(last.symbol))) > 0
    /\ NoneInGrid(grid, LineSym(last.symbol))
    /\ ~CollisionHidden(grid, LineSym(last.symbol))
    /\ ~BelowCutoff(LineSym(last.symbol))
    /\ last.result.circles = <<>>

(***************************************************************************)
(* C15, as stated.  With keepUpright, horizontal text whose first-to-last  *)
(* glyph direction is nearer vertical than horizontal on screen is refused *)
(* entirely: the result of placeCollisionCircles holds no circles.         *)
(***************************************************************************)
\* rise > run for the first and last glyph of label l, both in clip space
\* and times the viewport height.
NearVertical(l) ==
    LET firstClip == projectLabelPointToClip(l.firstAndLastGlyph.first.point, Tile(l.tile),
                                             l.pitchWithMap)
        lastClip == projectLabelPointToClip(l.firstAndLastGlyph.last.point, Tile(l.tile),
                                            l.pitchWithMap)
    IN  Abs(lastClip.cy - firstClip.cy) > Abs(lastClip.cx - firstClip.cx)

UprightRefused(l) ==
    /\ l.firstAndLastGlyph.present
    /\ l.keepUpright
    /\ l.symbol.writingMode = WritingModeHorizontal
    /\ NearVertical(l)

C15_RefusedEntirely ==
    (PlacedCircles /\ UprightRefused(LineSym(last.symbol))) => last.result.circles = <<>>

(***************************************************************************)
(* C15, amended.  In that case placeCollisionCircles places no special-    *)
(* glyph circle and records no glyph hit, but the path circles are still   *)
(* computed, hit-tested and returned: the result holds exactly the path    *)
(* circles unless a collision, the grid bounds or the cutoff empty it.     *)
(***************************************************************************)
PathCirclesOnly(g, l) ==
    SelectSeq(ComputedCircles(g, l), LAMBDA circle : circle[4] # 2)

C15_GlyphCirclesRefused ==
    (PlacedCircles /\ UprightRefused(LineSym(last.symbol))) =>
        LET l == LineSym(last.symbol)
        IN  /\ last.result.glyphHits = <<>>
            /\ \A n \in 1..Len(CirclesOf(last.result.circles)) :
                   CirclesOf(last.result.circles)[n][4] # 2
            /\ ~(CollisionHidden(grid, l) \/ NoneInGrid(grid, l) \/ BelowCutoff(l)) =>
                   /\ CirclesOf(last.result.circles) = PathCirclesOnly(grid, l)
                   /\ Len(last.result.circles) = 4 * Len(CircleGeometry[l.name].centres)

\* Near-vertical horizontal text with a special glyph: its path circle is
\* returned, no glyph circle is.
C15_Witness ==
    /\ PlacedCircles
    /\ UprightRefused(LineSym(last.symbol))
    /\ \E k \in 1..Len(LineSym(last.symbol).glyphs) :
           /\ LineSym(last.symbol).glyphs[k].glyphCharCode \in SPECIAL_GLYPH_CODES
           /\ LineSym(last.symbol).glyphs[k].placed
    /\ Len(last.result.circles) > 0
    /\ last.result.glyphHits = <<>>

(***************************************************************************)
(* C16.  For a pitch-aligned label, if any point of the reprojected path   *)
(* lies behind the camera (signedDistanceFromCamera <= 0), the label is    *)
(* abandoned entirely: the result of placeCollisionCircles holds no        *)
(* circles of any kind.                                                    *)
(***************************************************************************)
PathBehindCamera(l) ==
    /\ l.firstAndLastGlyph.present
    /\ l.pitchWithMap
    /\ LET labelPath == Reverse(Tail(l.firstAndLastGlyph.first.path))
                            \o Tail(l.firstAndLastGlyph.last.path)
           screenSpacePath == projectPathToScreenSpace(labelPath, Tile(l.tile))
       IN  \E k \in 1..Len(screenSpacePath) :
               screenSpacePath[k].signedDistanceFromCamera <= 0

C16_AbandonedEntirely ==
    (PlacedCircles /\ PathBehindCamera(LineSym(last.symbol))) => last.result.circles = <<>>

\* A pitch-aligned label whose path reaches behind the camera gets no path
\* circle, and yet its result carries the circle of a special glyph.
C16_Witness ==
    /\ PlacedCircles
    /\ PathBehindCamera(LineSym(last.symbol))
    /\ CircleGeometry[LineSym(last.symbol).name].centres = <<>>
    /\ Len(last.result.circles) > 0
    /\ \A n \in 1..Len(CirclesOf(last.result.circles)) :
           CirclesOf(last.result.circles)[n][4] = 2

(***************************************************************************)
(* The blended transform.  GlobeTransform owns a flat (mercator) and a     *)
(* spherical (vertical-perspective) transform and a weight _globeness,     *)
(* here in hundredths.  A tile projects differently under the two; the     *)
(* records of Tiles stand for one tile as each of them projects it.        *)
(* Results are kept times 100, so that the interpolation is exact.         *)
(***************************************************************************)
\* util lerp(a, b, t) = a * (1 - t) + b * t, times 100.
lerp(a, b, t) == a * (100 - t) + b * t

GlobenessValues == {0, 25, 50, 75, 100}

GlobeTransforms ==
    [globeness : GlobenessValues, mercator : {"near", "far", "turn"},
     vertical : {"globe", "edge", "steep"}]

\* A pure-mode result, times 100.
PureProjection(x, y, tile) ==
    LET projected == projectTileCoordinates(x, y, tile)
    IN  [cx |-> 100 * projected.cx, cy |-> 100 * projected.cy,
         signedDistanceFromCamera |-> 100 * projected.signedDistanceFromCamera,
         isOccluded |-> projected.isOccluded]

\* GlobeTransform.currentTransform: the spherical transform as soon as the
\* globe is rendered at all.
currentTransform(gt) == IF gt.globeness > 0 THEN Tile(gt.vertical) ELSE Tile(gt.mercator)

\* Variant: the projection before the fix, which never interpolates.
GlobeTransform_projectTileCoordinates_current(x, y, gt) == PureProjection(x, y, currentTransform(gt))

GlobeTransform_projectTileCoordinates(x, y, gt) ==
    IF gt.globeness > 0 /\ gt.globeness < 100
    THEN LET mercatorProjected == projectTileCoordinates(x, y, Tile(gt.mercator))
             verticalProjected == projectTileCoordinates(x, y, Tile(gt.vertical))
         IN  [cx |-> lerp(mercatorProjected.cx, verticalProjected.cx, gt.globeness),
              cy |-> lerp(mercatorProjected.cy, verticalProjected.cy, gt.globeness),
              signedDistanceFromCamera |->
                  lerp(mercatorProjected.signedDistanceFromCamera,
                       verticalProjected.signedDistanceFromCamera, gt.globeness),
              isOccluded |-> verticalProjected.isOccluded]
    ELSE PureProjection(x, y, currentTransform(gt))

TileCoordinates == {0, 60, 90, 130}

ProjectTileCoordinates(x, y, gt) ==
    /\ last' = [op |-> "projectTileCoordinates", x |-> x, y |-> y, transform |-> gt,
                result |-> GlobeTransform_projectTileCoordinates(x, y, gt)]
    /\ UNCHANGED <<grid, ignoredGrid, placedTrace, inserts>>

TransformNext ==
    \E x \in TileCoordinates, y \in TileCoordinates, gt \in GlobeTransforms :
        ProjectTileCoordinates(x, y, gt)

TransformSpec == Init /\ [][TransformNext]_vars

(***************************************************************************)
(* C17.  In transition (weight strictly between 0 and 1) the projected     *)
(* point and signedDistanceFromCamera are, axis by axis, the flat result   *)
(* plus the weight's share of the way to the spherical result; at weight   *)
(* one half each is the mean of the two; at weight 0 or 1 the result is    *)
(* that of the current pure transform, unchanged.                          *)
(***************************************************************************)
Projected == last.op = "projectTileCoordinates"

FlatResult == projectTileCoordinates(last.x, last.y, Tile(last.transform.mercator))

SphericalResult == projectTileCoordinates(last.x, last.y, Tile(last.transform.vertical))

\* v is a + w * (b - a), everything times 100
Interpolates(v, a, b, w) == v = 100 * a + w * (b - a)

C17_BlendInterpolates ==
    Projected =>
        LET w == last.transform.globeness
            r == last.result
            f == FlatResult
            sph == SphericalResult
        IN  /\ (0 < w /\ w < 100) =>
                   /\ Interpolates(r.cx, f.cx, sph.cx, w)
                   /\ Interpolates(r.cy, f.cy, sph.cy, w)
                   /\ Interpolates(r.signedDistanceFromCamera, f.signedDistanceFromCamera,
                                   sph.signedDistanceFromCamera, w)
            /\ w = 50 =>
                   /\ 2 * r.cx = 100 * (f.cx + sph.cx)
                   /\ 2 * r.cy = 100 * (f.cy + sph.cy)
                   /\ 2 * r.signedDistanceFromCamera =
                          100 * (f.signedDistanceFromCamera + sph.signedDistanceFromCamera)
            /\ w = 0 => r = PureProjection(last.x, last.y, Tile(last.transform.mercator))
            /\ w = 100 => r = PureProjection(last.x, last.y, Tile(last.transform.vertical))

\* A projection half way between two transforms that disagree on the point
\* and on the distance from the camera.
C17_Witness ==
    /\ Projected
    /\ last.transform.globeness = 50
    /\ FlatResult.cx # SphericalResult.cx
    /\ FlatResult.cy # SphericalResult.cy
    /\ FlatResult.signedDistanceFromCamera # SphericalResult.signedDistanceFromCamera
    /\ last.result.cx # 100 * FlatResult.cx
    /\ last.result.cx # 100 * SphericalResult.cx

(***************************************************************************)
(* C18.  Both grids are append-only: every step leaves each grid's old     *)
(* entries and keys in place and unchanged, so no key count decreases.     *)
(* insertCollisionBox adds exactly one entry to exactly one grid, the one  *)
(* ignorePlacement selects; insertCollisionCircles adds circles.length / 4 *)
(* entries to exactly one grid, and none when circles is empty or          *)
(* placedCircles is missing.  No other operation adds anything.            *)
(***************************************************************************)
IsPrefix(a, b) == Len(a) <= Len(b) /\ SubSeq(b, 1, Len(a)) = a

\* The number of circles a call of insertCollisionCircles was handed.
CirclesHandedOver(placedCircles) ==
    IF placedCircles = NoPlacedCircles THEN 0 ELSE Len(placedCircles.circles) \div 4

\* The step added count entries to the grid ignorePlacement selects and
\* none to the other.
AddedToOneGrid(g, ig, gAfter, igAfter, ignorePlacement, count) ==
    IF ignorePlacement
    THEN gAfter = g /\ Len(igAfter) = Len(ig) + count
    ELSE igAfter = ig /\ Len(gAfter) = Len(g) + count

C18_AppendOnly ==
    [][ /\ IsPrefix(grid, grid')
        /\ IsPrefix(ignoredGrid, ignoredGrid')
        /\ keysLength(grid') >= keysLength(grid)
        /\ keysLength(ignoredGrid') >= keysLength(ignoredGrid)
        /\ (last'.op = "insertCollisionBox") =>
               AddedToOneGrid(grid, ignoredGrid, grid', ignoredGrid',
                              BoxSym(last'.symbol).ignorePlacement, 1)
        /\ (last'.op = "insertCollisionCircles") =>
               AddedToOneGrid(grid, ignoredGrid, grid', ignoredGrid',
                              LineSym(last'.symbol).ignorePlacement,
                              CirclesHandedOver(last'.placed))
        /\ (last'.op \notin {"insertCollisionBox", "insertCollisionCircles"}) =>
               <<grid', ignoredGrid'>> = <<grid, ignoredGrid>>
      ]_vars

\* Two circles have just been appended behind an older entry of the grid.
C18_Witness ==
    /\ last.op = "insertCollisionCircles"
    /\ last.placed # NoPlacedCircles
    /\ Len(last.placed.circles) >= 8
    /\ ~LineSym(last.symbol).ignorePlacement
    /\ Len(grid) > Len(last.placed.circles) \div 4

(***************************************************************************)
(* Inline colour markers (color_split.ts).  A text is a sequence of        *)
(* characters; private-use characters are written by their code point.  A  *)
(* Color is the tuple <<r, g, b, a>> of the numerators over 255 its        *)
(* constructor is handed; noColor stands for null and undefined.           *)
(***************************************************************************)
RGB_MARKER == "E100"

RGBA_MARKER == "E101"

noColor == <<>>

HexValue ==
    [c \in {"0", "1", "2", "3", "4", "5", "6", "7", "8", "9",
            "a", "b", "c", "d", "e", "f", "A", "B", "C", "D", "E", "F"} |->
        CASE c = "0" -> 0 [] c = "1" -> 1 [] c = "2" -> 2 [] c = "3" -> 3 [] c = "4" -> 4
          [] c = "5" -> 5 [] c = "6" -> 6 [] c = "7" -> 7 [] c = "8" -> 8 [] c = "9" -> 9
          [] c \in {"a", "A"} -> 10 [] c \in {"b", "B"} -> 11 [] c \in {"c", "C"} -> 12
          [] c \in {"d", "D"} -> 13 [] c \in {"e", "E"} -> 14 [] c \in {"f", "F"} -> 15]

\* the character class [0-9a-fA-F]
HexDigits == DOMAIN HexValue

\* parseInt(two characters, 16) on two hex digits
parseInt(hi, lo) == 16 * HexValue[hi] + HexValue[lo]

\* Variant: the alpha digits are read and dropped.
parseHexColor_opaque(hex) ==
    IF hex = <<>> \/ hex[1] # "#" THEN noColor
    ELSE LET clean == Tail(hex)
         IN  IF Len(clean) \in {6, 8} /\ \A k \in 1..Len(clean) : clean[k] \in HexDigits
             THEN <<parseInt(clean[1], clean[2]), parseInt(clean[3], clean[4]),
                    parseInt(clean[5], clean[6]), 255>>
             ELSE noColor

parseHexColor(hex) ==
    IF hex = <<>> \/ hex[1] # "#" THEN noColor
    ELSE LET clean == Tail(hex)
             valid == \A k \in 1..Len(clean) : clean[k] \in HexDigits
         IN  IF Len(clean) = 6 /\ valid
             THEN <<parseInt(clean[1], clean[2]), parseInt(clean[3], clean[4]),
                    parseInt(clean[5], clean[6]), 255>>
             ELSE IF Len(clean) = 8 /\ valid
             THEN <<parseInt(clean[1], clean[2]), parseInt(clean[3], clean[4]),
                    parseInt(clean[5], clean[6]), parseInt(clean[7], clean[8])>>
             ELSE noColor

\* generateSplitChars on the first two named colours, aliceblue and
\* antiquewhite: one private-use character each, from U+E001 on.
defaultSplitChars ==
    [c \in {"E001", "E002"} |->
        IF c = "E001" THEN <<240, 248, 255, 255>> ELSE <<250, 235, 215, 255>>]

\* Variant: the RGB marker takes eight hex digits when eight follow.
MatchAt_greedy(text, i, splitChars) ==
    LET HexRun(n) == /\ i + 1 + n <= Len(text)
                     /\ text[i + 1] = "#"
                     /\ \A k \in 2..(n + 1) : text[i + k] \in HexDigits
    IN  IF text[i] \in DOMAIN splitChars THEN [kind |-> "named", length |-> 1]
        ELSE IF text[i] \in {RGB_MARKER, RGBA_MARKER} /\ HexRun(8)
        THEN [kind |-> "rgba", length |-> 10]
        ELSE IF text[i] = RGB_MARKER /\ HexRun(6) THEN [kind |-> "rgb", length |-> 8]
        ELSE [kind |-> "none", length |-> 0]

\* One exec of the marker regex at position i: the alternative that matches
\* there and the number of characters it takes.
MatchAt(text, i, splitChars) ==
    LET HexRun(n) == /\ i + 1 + n <= Len(text)
                     /\ text[i + 1] = "#"
                     /\ \A k \in 2..(n + 1) : text[i + k] \in HexDigits
    IN  IF text[i] \in DOMAIN splitChars THEN [kind |-> "named", length |-> 1]
        ELSE IF text[i] = RGB_MARKER /\ HexRun(6) THEN [kind |-> "rgb", length |-> 8]
        ELSE IF text[i] = RGBA_MARKER /\ HexRun(8) THEN [kind |-> "rgba", length |-> 10]
        ELSE [kind |-> "none", length |-> 0]

\* markerRegex.exec from lastIndex on: the index of the next match, 0 for null.
NextMatch(text, lastIndex, splitChars) ==
    LET found == {i \in lastIndex..Len(text) : MatchAt(text, i, splitChars).kind # "none"}
    IN  IF found = {} THEN 0 ELSE CHOOSE i \in found : \A j \in found : i <= j

\* Variant: the quick check looks for named markers only.
containsColorMarker_namedOnly(text, splitChars) ==
    \E i \in 1..Len(text) : text[i] \in DOMAIN splitChars

containsColorMarker(text, splitChars) ==
    \E i \in 1..Len(text) : text[i] \in {RGB_MARKER, RGBA_MARKER} \union DOMAIN splitChars

\* The loop of applyColorSplit over one section, from lastIndex (the next
\* character to look at) with the colour in force and the sections pushed so
\* far.  markerJoined switches whether a named marker is pushed with the
\* text before it.
RECURSIVE splitSectionWith(_, _, _, _, _, _)
splitSectionWith(originalSection, splitChars, lastIndex, currentColor, updatedSections, markerJoined) ==
    LET sectionText == originalSection.text
        matchIndex == NextMatch(sectionText, lastIndex, splitChars)
        match == MatchAt(sectionText, matchIndex, splitChars)
        Pushed(from, to) ==
            IF from <= to
            THEN <<[originalSection EXCEPT !.text = SubSeq(sectionText, from, to),
                                           !.textColor = currentColor]>>
            ELSE <<>>
        parsed == parseHexColor(SubSeq(sectionText, matchIndex + 1,
                                       matchIndex + match.length - 1))
    IN  IF matchIndex = 0
        THEN updatedSections \o Pushed(lastIndex, Len(sectionText))
        ELSE IF match.kind = "named"
        THEN splitSectionWith(originalSection, splitChars, matchIndex + 1,
                              splitChars[sectionText[matchIndex]],
                              IF markerJoined
                              THEN updatedSections \o Pushed(lastIndex, matchIndex)
                              ELSE updatedSections \o Pushed(lastIndex, matchIndex - 1)
                                       \o Pushed(matchIndex, matchIndex),
                              markerJoined)
        ELSE splitSectionWith(originalSection, splitChars, matchIndex + match.length,
                              IF parsed # noColor THEN parsed ELSE currentColor,
                              updatedSections \o Pushed(lastIndex, matchIndex - 1),
                              markerJoined)

\* Variant: a named marker ends the section of the text before it.
splitSection_markerJoined(originalSection, splitChars) ==
    splitSectionWith(originalSection, splitChars, 1, originalSection.textColor, <<>>, TRUE)

\* The sections one section of the input is replaced by.
splitSection(originalSection, splitChars) ==
    splitSectionWith(originalSection, splitChars, 1, originalSection.textColor, <<>>, FALSE)

RECURSIVE applyColorSplitFrom(_, _, _)
applyColorSplitFrom(sections, splitChars, n) ==
    IF n > Len(sections) THEN <<>>
    ELSE (IF sections[n].text = <<>> \/ ~containsColorMarker(sections[n].text, splitChars)
          THEN <<sections[n]>>
          ELSE splitSection(sections[n], splitChars))
             \o applyColorSplitFrom(sections, splitChars, n + 1)

\* applyColorSplit: the sections of formattedText afterwards.
applyColorSplit(formattedText, splitChars) ==
    [sections |-> applyColorSplitFrom(formattedText.sections, splitChars, 1)]

(***************************************************************************)
(* The texts handed to applyColorSplit: every run of up to MaxTokens       *)
(* pieces, and the text-field of the bucket tests.                         *)
(***************************************************************************)
MaxTokens == 4

Tokens ==
    { <<"H">>, <<"5">>, <<"E001">>, <<"E002">>, <<RGB_MARKER>>, <<RGBA_MARKER>>,
      <<"#", "1", "1", "2", "2", "3", "3">>,
      <<"#", "a", "a", "b", "b", "c", "c", "d", "d">> }

RECURSIVE TextsOf(_)
TextsOf(n) ==
    IF n = 0 THEN {<<>>}
    ELSE LET shorter == TextsOf(n - 1)
         IN  shorter \union {t \o token : t \in shorter, token \in Tokens}

\* `Hello${namedMarker}World${RGB_MARKER}#112233RGB${RGBA_MARKER}#aabbccddRGBA`
TestTextValue ==
    <<"H", "e", "l", "l", "o", "E001", "W", "o", "r", "l", "d", RGB_MARKER,
      "#", "1", "1", "2", "2", "3", "3", "R", "G", "B", RGBA_MARKER,
      "#", "a", "a", "b", "b", "c", "c", "d", "d", "R", "G", "B", "A">>

Gray == <<128, 128, 128, 255>>

Section(text, textColor, scale) == [text |-> text, textColor |-> textColor, scale |-> scale]

FormattedTexts(maxTokens) ==
    {[sections |-> <<Section(t, noColor, 1)>>] : t \in TextsOf(maxTokens) \union {TestTextValue}}
        \union {[sections |-> <<Section(t, Gray, 1)>>] : t \in TextsOf(maxTokens - 1)}
        \union {[sections |-> <<Section(t1, noColor, 1), Section(t2, c, 2)>>] :
                   t1 \in {<<"H", "E001", "H">>, <<RGB_MARKER>> \o
                                                 <<"#", "1", "1", "2", "2", "3", "3", "H">>},
                   t2 \in {<<>>, <<"H">>, <<"H", "E002", "5">>}, c \in {noColor, Gray}}

ColorInit ==
    /\ grid = <<>>
    /\ ignoredGrid = <<>>
    /\ placedTrace = <<>>
    /\ inserts = 0
    /\ \E formattedText \in FormattedTexts(MaxTokens) :
           last = [op |-> "formatted", formattedText |-> formattedText]

ApplyColorSplit ==
    /\ last.op = "formatted"
    /\ last' = [op |-> "applyColorSplit", formattedText |-> last.formattedText,
                result |-> applyColorSplit(last.formattedText, defaultSplitChars)]
    /\ UNCHANGED <<grid, ignoredGrid, placedTrace, inserts>>

ColorNext == ApplyColorSplit

ColorSpec == ColorInit /\ [][ColorNext]_vars

(***************************************************************************)
(* Vocabulary of the colour properties: where the markers of a text are,   *)
(* read off the text itself, and the characters of the sections before and *)
(* after the split.                                                        *)
(***************************************************************************)
Applied == last.op = "applyColorSplit"

NamedAt(t, i) == t[i] \in DOMAIN defaultSplitChars

\* '#' and n hex digits follow position i
HexFollows(t, i, n) ==
    /\ i + 1 + n <= Len(t)
    /\ t[i + 1] = "#"
    /\ \A k \in (i + 2)..(i + 1 + n) : t[k] \in HexDigits

RgbAt(t, i) == t[i] = RGB_MARKER /\ HexFollows(t, i, 6)

RgbaAt(t, i) == t[i] = RGBA_MARKER /\ HexFollows(t, i, 8)

MarkerAt(t, i) == NamedAt(t, i) \/ RgbAt(t, i) \/ RgbaAt(t, i)

\* position p belongs to a hex marker sequence
ConsumedAt(t, p) ==
    \E i \in 1..p : (RgbAt(t, i) /\ p <= i + 7) \/ (RgbaAt(t, i) /\ p <= i + 9)

Byte(t, i) == 16 * HexValue[t[i]] + HexValue[t[i + 1]]

\* the colour the marker at position i stands for
MarkerColour(t, i) ==
    IF NamedAt(t, i) THEN defaultSplitChars[t[i]]
    ELSE IF RgbAt(t, i) THEN <<Byte(t, i + 2), Byte(t, i + 4), Byte(t, i + 6), 255>>
    ELSE <<Byte(t, i + 2), Byte(t, i + 4), Byte(t, i + 6), Byte(t, i + 8)>>

\* the colour of the last marker before position p, the section's own
\* colour when there is none
ColourAt(t, textColor, p) ==
    LET before == {i \in 1..(p - 1) : MarkerAt(t, i)}
    IN  IF before = {} THEN textColor
        ELSE MarkerColour(t, CHOOSE i \in before : \A j \in before : j <= i)

\* The characters of input section j that are no part of a hex marker
\* sequence, each with the colour of the last marker before it.
ExpectedChars(section, j) ==
    LET t == section.text
        visible == SelectSeq([p \in 1..Len(t) |-> p], LAMBDA p : ~ConsumedAt(t, p))
    IN  [n \in 1..Len(visible) |->
            [char |-> t[visible[n]], colour |-> ColourAt(t, section.textColor, visible[n]),
             named |-> NamedAt(t, visible[n]), input |-> j, pos |-> visible[n]]]

Expected(formattedText) ==
    Concat([j \in 1..Len(formattedText.sections) |->
               ExpectedChars(formattedText.sections[j], j)])

\* The characters of the sections of a result, each with its section's
\* colour and index.
OutputChars(formattedText) ==
    Concat([k \in 1..Len(formattedText.sections) |->
               [n \in 1..Len(formattedText.sections[k].text) |->
                   [char |-> formattedText.sections[k].text[n],
                    colour |-> formattedText.sections[k].textColor,
                    named |-> formattedText.sections[k].text[n] \in DOMAIN defaultSplitChars,
                    section |-> k]]])

NotNamed(chars) == SelectSeq(chars, LAMBDA c : ~c.named)

(***************************************************************************)
(* C19.  applyColorSplit colours text by the last marker before it in the  *)
(* same section: text before the first marker keeps the section's          *)
(* textColor, text after a named marker has the colour mapped to it, text  *)
(* after RGB_MARKER #rrggbb that opaque colour and text after RGBA_MARKER  *)
(* #rrggbbaa that colour with alpha aa / 255.                              *)
(***************************************************************************)
C19_ColouredByLastMarker ==
    Applied =>
        LET expected == NotNamed(Expected(last.formattedText))
            output == NotNamed(OutputChars(last.result))
        IN  /\ Len(output) = Len(expected)
            /\ \A n \in 1..Len(output) :
                   /\ output[n].char = expected[n].char
                   /\ output[n].colour = expected[n].colour

SectionWith(formattedText, text, textColor) ==
    \E k \in 1..Len(formattedText.sections) :
        /\ formattedText.sections[k].text = text
        /\ formattedText.sections[k].textColor = textColor

\* The text-field of the bucket tests, split: Hello uncoloured, World in the
\* named colour, RGB in #112233 and RGBA in #aabbccdd.
C19_Witness ==
    /\ Applied
    /\ last.formattedText.sections[1].text = TestTextValue
    /\ SectionWith(last.result, <<"H", "e", "l", "l", "o">>, noColor)
    /\ SectionWith(last.result, <<"W", "o", "r", "l", "d">>, defaultSplitChars["E001"])
    /\ SectionWith(last.result, <<"R", "G", "B">>, <<17, 34, 51, 255>>)
    /\ SectionWith(last.result, <<"R", "G", "B", "A">>, <<170, 187, 204, 221>>)

(***************************************************************************)
(* C20, as stated.  A named marker is a split point: the marker character  *)
(* ends the output section that holds the text before it, and the colour   *)
(* mapped from the marker is applied to the text that follows.             *)
(***************************************************************************)
\* character n of the input is a named marker straight after text of the
\* same section
AfterText(expected, n) ==
    /\ expected[n].named
    /\ n > 1
    /\ expected[n - 1].input = expected[n].input
    /\ expected[n - 1].pos = expected[n].pos - 1
    /\ ~expected[n - 1].named

\* character n of the input is a named marker straight before text of the
\* same section
BeforeText(expected, n) ==
    /\ expected[n].named
    /\ n < Len(expected)
    /\ expected[n + 1].input = expected[n].input
    /\ expected[n + 1].pos = expected[n].pos + 1
    /\ ~expected[n + 1].named

HexMarkerLength(t, i) == IF RgbAt(t, i) THEN 8 ELSE IF RgbaAt(t, i) THEN 10 ELSE 0

\* the positions of text t whose characters are output
OutputPositions(expected, j) ==
    {expected[n].pos : n \in {m \in 1..Len(expected) : expected[m].input = j}}

C21_HexMarkerConsumed ==
    Applied =>
        LET expected == Expected(last.formattedText)
            output == OutputChars(last.result)
        IN  /\ Len(output) = Len(expected)
            /\ \A n \in 1..Len(output) : output[n].char = expected[n].char
            /\ \A j \in 1..Len(last.formattedText.sections) :
                   LET t == last.formattedText.sections[j].text
                       taken == UNION {i..(i + HexMarkerLength(t, i) - 1) : i \in 1..Len(t)}
                   IN  /\ OutputPositions(expected, j) = (1..Len(t)) \ taken
                       /\ \A i \in 1..Len(t) :
                              LET next == i + HexMarkerLength(t, i)
                              IN  (HexMarkerLength(t, i) > 0 /\ next <= Len(t)
                                       /\ HexMarkerLength(t, next) = 0) =>
                                      next \in OutputPositions(expected, j)

\* RGB_MARKER before '#aabbccdd' and a letter: six digits are taken, the
\* digits dd and the letter are the visible text, in colour #aabbcc.
C21_Witness ==
    /\ Applied
    /\ last.formattedText.sections[1].text =
           <<RGB_MARKER, "#", "a", "a", "b", "b", "c", "c", "d", "d", "H">>
    /\ Len(last.result.sections) = 1
    /\ last.result.sections[1].text = <<"d", "d", "H">>
    /\ last.result.sections[1].textColor = <<170, 187, 204, 255>>

(***************************************************************************)
(* Floating-point numbers.  A positive number is kept exactly, as its      *)
(* whole part and the bits of its fraction (no trailing zeros); each       *)
(* operation computes the exact result and rounds it to the nearest number *)
(* with the given count of significand bits, ties to even.                 *)
(***************************************************************************)
DoubleBits == 53

Float32Bits == 24

RECURSIVE FloorLog2(_)
FloorLog2(n) == IF n <= 1 THEN 0 ELSE 1 + FloorLog2(n \div 2)

\* bits without its trailing zeros
TrimZeros(bits) ==
    LET ones == {i \in 1..Len(bits) : bits[i] = 1}
    IN  IF ones = {} THEN <<>>
        ELSE SubSeq(bits, 1, CHOOSE i \in ones : \A j \in ones : j <= i)

\* one unit more in the last place of bits: the last 0 becomes 1 and the
\* ones behind it 0; all ones carry into the whole part
IncBits(bits) ==
    LET zeros == {i \in 1..Len(bits) : bits[i] = 0}
        lastZero == CHOOSE i \in zeros : \A j \in zeros : j <= i
    IN  IF zeros = {} THEN [bits |-> [i \in 1..Len(bits) |-> 0], carry |-> 1]
        ELSE [bits |-> [i \in 1..Len(bits) |->
                           IF i < lastZero THEN bits[i] ELSE IF i = lastZero THEN 1 ELSE 0],
              carry |-> 0]

\* the fraction bits a number with this whole part (at least 1) can hold
FractionBitsKept(int, significandBits) == significandBits - 1 - FloorLog2(int)

\* Keep `kept` fraction bits of int + 0.head..., rounding up when asked.
Rounded(int, head, up) ==
    IF up
    THEN LET inc == IncBits(head)
         IN  [int |-> int + inc.carry, frac |-> TrimZeros(inc.bits)]
    ELSE [int |-> int, frac |-> TrimZeros(head)]

RoundTo(v, significandBits) ==
    LET kept == FractionBitsKept(v.int, significandBits)
        head == SubSeq(v.frac, 1, kept)
        rest == SubSeq(v.frac, kept + 1, Len(v.frac))
        odd == IF kept = 0 THEN v.int % 2 = 1 ELSE head[kept] = 1
        up == rest[1] = 1 /\ (odd \/ \E k \in 2..Len(rest) : rest[k] = 1)
    IN  IF Len(v.frac) <= kept THEN [int |-> v.int, frac |-> TrimZeros(v.frac)]
        ELSE Rounded(v.int, head, up)

\* the next n bits of r / den (r < den) behind the bits done, and the
\* remainder left
RECURSIVE DivBitsFrom(_, _, _, _)
DivBitsFrom(r, den, n, done) ==
    IF n = 0 THEN [bits |-> done, rem |-> r]
    ELSE DivBitsFrom(IF 2 * r >= den THEN 2 * r - den ELSE 2 * r, den, n - 1,
                     Append(done, IF 2 * r >= den THEN 1 ELSE 0))

DivBits(r, den, n) == DivBitsFrom(r, den, n, <<>>)

\* The number a decimal literal int + num / den (int >= 1, num < den) is
\* read as.
ParseDecimal(int, num, den, significandBits) ==
    LET kept == FractionBitsKept(int, significandBits)
        q == DivBits(num, den, kept)
        odd == IF kept = 0 THEN int % 2 = 1 ELSE q.bits[kept] = 1
        up == 2 * q.rem > den \/ (2 * q.rem = den /\ odd)
    IN  Rounded(int, q.bits, up)

\* bits times k, from the last bit to the first: the bits of the product
\* below the point and the carry into the whole part
RECURSIVE MulBitsFrom(_, _, _, _, _)
MulBitsFrom(bits, k, i, carry, done) ==
    IF i = 0 THEN [bits |-> done, carry |-> carry]
    ELSE MulBitsFrom(bits, k, i - 1, (bits[i] * k + carry) \div 2,
                     <<(bits[i] * k + carry) % 2>> \o done)

MulBits(bits, k) == MulBitsFrom(bits, k, Len(bits), 0, <<>>)

\* v * k for a whole k >= 1
fMul(v, k, significandBits) ==
    LET product == MulBits(v.frac, k)
    IN  RoundTo([int |-> v.int * k + product.carry, frac |-> product.bits], significandBits)

\* v + n for a whole n >= 0
fAdd(v, n, significandBits) == RoundTo([int |-> v.int + n, frac |-> v.frac], significandBits)

\* v / 2, which only lowers the exponent
fHalf(v) == [int |-> v.int \div 2, frac |-> TrimZeros(<<v.int % 2>> \o v.frac)]

(***************************************************************************)
(* The x of projectAndGetPerspectiveRatio in floating point, on the path   *)
(* through the transform.  The position matrix scales x by m0 and shifts   *)
(* it by m12; w is 1.  The identity matrix is m0 = 1, m12 = 0.             *)
(***************************************************************************)
\* MercatorTransform.projectTileCoordinates, point.x
MercatorProjectX(x, posMatrix, significandBits) ==
    fAdd(fMul(x, posMatrix.m0, significandBits), posMatrix.m12, significandBits)

\* Variant: single precision throughout.
projectAndGetPerspectiveRatioX_float32(x, posMatrix, width, significandBits) ==
    fAdd(fMul(fHalf(fAdd(MercatorProjectX(x, posMatrix, Float32Bits), 1, Float32Bits)),
              width, Float32Bits),
         viewportPadding, Float32Bits)

\* (((projected.point.x + 1) / 2) * this.transform.width) + viewportPadding
projectAndGetPerspectiveRatioX(x, posMatrix, width, significandBits) ==
    fAdd(fMul(fHalf(fAdd(MercatorProjectX(x, posMatrix, significandBits), 1,
                         significandBits)),
              width, significandBits),
         viewportPadding, significandBits)

\* Tile coordinates as decimal literals: whole part, and the fraction as
\* num / den.
CoordinateLiterals ==
    [int : {1, 100, 4096, 65535, 100000},
     num : {0, 1, 5, 123456, 999999}, den : {1000000}]
        \union [int : {1, 100000}, num : {1, 2}, den : {3}]

PosMatrices == [m0 : {1, 2}, m12 : {0, 3}]

ViewportWidths == {200, 512, 1000}

PrecisionInit ==
    /\ grid = <<>>
    /\ ignoredGrid = <<>>
    /\ placedTrace = <<>>
    /\ inserts = 0
    /\ \E x \in CoordinateLiterals, posMatrix \in PosMatrices, width \in ViewportWidths :
           last = [op |-> "tileCoordinate", x |-> x, posMatrix |-> posMatrix,
                   width |-> width]

ProjectAndGetPerspectiveRatio ==
    /\ last.op = "tileCoordinate"
    /\ last' = [op |-> "projectAndGetPerspectiveRatio", x |-> last.x,
                posMatrix |-> last.posMatrix, width |-> last.width,
                result |-> projectAndGetPerspectiveRatioX(
                               ParseDecimal(last.x.int, last.x.num, last.x.den, DoubleBits),
                               last.posMatrix, last.width, DoubleBits)]
    /\ UNCHANGED <<grid, ignoredGrid, placedTrace, inserts>>

PrecisionNext == ProjectAndGetPerspectiveRatio

PrecisionSpec == PrecisionInit /\ [][PrecisionNext]_vars

(***************************************************************************)
(* C22.  Tile coordinate (100000.123456, 0) through the identity position  *)
(* matrix with a 200 wide viewport gives x = 10000212.3456 within 1e-10.   *)
(* Two different doubles of that size lie 2^-29 > 1e-10 apart, so the      *)
(* result is within 1e-10 of the double the literal 10000212.3456 is read  *)
(* as exactly when it is that double.                                      *)
(***************************************************************************)
ProjectedPrecisely == last.op = "projectAndGetPerspectiveRatio"

TestCoordinate ==
    /\ last.x = [int |-> 100000, num |-> 123456, den |-> 1000000]
    /\ last.posMatrix = [m0 |-> 1, m12 |-> 0]
    /\ last.width = 200

\* 2^-29 > 10^-10, as 2^29 / 10^5 < 10^5
SpacingExceedsTolerance == (2 ^ 29) \div 100000 < 100000

C22_PrecisionKept ==
    (ProjectedPrecisely /\ TestCoordinate) =>
        /\ last.result = ParseDecimal(10000212, 3456, 10000, DoubleBits)
        /\ FractionBitsKept(last.result.int, DoubleBits) = 29
        /\ SpacingExceedsTolerance

\* The test's projection has been made, and its result is no whole number.
C22_Witness ==
    /\ ProjectedPrecisely
    /\ TestCoordinate
    /\ last.result.int = 10000212
    /\ last.result.frac # <<>>

(***************************************************************************)
(* C23, as stated.  With debug circles on, a conflicting path circle does  *)
(* not abort the call: every circle of every visible segment is computed   *)
(* and returned, a conflicting circle with flag 1 and any other path       *)
(* circle with flag 0, and collisionDetected is true.                      *)
(***************************************************************************)
DebugCollision(g, l) ==
    /\ l.showCollisionCircles
    /\ l.overlapMode # "always"
    /\ CircleGeometry[l.name].present
    /\ BlockedCircles(g, l) # {}

\* the returned circles begin with every path circle of l, flagged by
\* whether it conflicts on grid g
PathCirclesReturned(g, l) ==
    LET centres == CircleGeometry[l.name].centres
        circles == CirclesOf(last.result.circles)
    IN  /\ Len(circles) >= Len(centres)
        /\ \A k \in 1..Len(centres) :
               circles[k] = <<centres[k].x, centres[k].y, CircleGeometry[l.name].radius,
                              IF k \in BlockedCircles(g, l) THEN 1 ELSE 0>>

C23_DebugReturnsAll ==
    (PlacedCircles /\ DebugCollision(grid, LineSym(last.symbol))) =>
        /\ last.result.collisionDetected
        /\ PathCirclesReturned(grid, LineSym(last.symbol))

(***************************************************************************)
(* C23, amended.  With debug circles on, a conflicting path circle does    *)
(* not abort the call: every circle of every visible segment is hit-tested *)
(* and computed and collisionDetected is true; the circles are returned,   *)
(* a conflicting one with flag 1 and any other path circle with flag 0,    *)
(* unless no circle reaches into the grid or the perspective ratio is      *)
(* below the cutoff, in which case the returned circles array is empty.    *)
(***************************************************************************)
C23_DebugKeepsGoing ==
    (PlacedCircles /\ DebugCollision(grid, LineSym(last.symbol))) =>
        LET l == LineSym(last.symbol)
        IN  /\ last.result.collisionDetected
            /\ hitTestsMade(grid, CircleGeometry[l.name], l.overlapMode,
                            l.showCollisionCircles, l.predicate)
                   = Len(CircleGeometry[l.name].centres)
            /\ IF NoneInGrid(grid, l) \/ BelowCutoff(l)
               THEN last.result.circles = <<>>
               ELSE PathCirclesReturned(grid, l)

\* A debug label with a conflicting and a free path circle, both returned.
C23_Witness ==
    /\ PlacedCircles
    /\ DebugCollision(grid, LineSym(last.symbol))
    /\ \E k \in 1..Len(CirclesOf(last.result.circles)) :
           CirclesOf(last.result.circles)[k][4] = 1
    /\ \E k \in 1..Len(CirclesOf(last.result.circles)) :
           CirclesOf(last.result.circles)[k][4] = 0

(***************************************************************************)
(* C24.  Special-glyph circles are never hit-tested against the grid: a    *)
(* special-glyph circle that overlaps an existing main-grid entry neither  *)
(* sets collisionDetected nor aborts the call, and each special-glyph      *)
(* circle that is placed is appended with flag 2 together with one         *)
(* glyphHits entry recording its circle index, glyph array index and char  *)
(* code.                                                                   *)
(***************************************************************************)
\* The special-glyph circles of label l that overlap an entry of g its
\* predicate matches.
BlockedGlyphCircles(g, l) ==
    LET geometry == CircleGeometry[l.name]
    IN  { n \in 1..Len(geometry.glyphCircles) :
            \E i \in 1..Len(g) :
                /\ Matches(l.predicate, g[i].key)
                /\ EntriesCollide(CircleEntry(g[i].key, geometry.glyphCircles[n].x,
                                              geometry.glyphCircles[n].y, geometry.radius),
                                  g[i]) }

\* The glyph of label l that glyph hit h records, and where it is drawn.
HitGlyph(l, h) == l.glyphs[h.glyphArrayIndex - l.symbol.glyphStartIndex + 1]

\* The returned circles end with one flag-2 circle for each glyph hit, in
\* order, each hit naming its circle and a special glyph of the label.
GlyphCirclesAppended(l, result) ==
    LET circles == CirclesOf(result.circles)
        hits == result.glyphHits
        paths == Len(circles) - Len(hits)
    IN  /\ paths >= 0
        /\ \A k \in 1..paths : circles[k][4] \in {0, 1}
        /\ \A n \in 1..Len(hits) :
               /\ hits[n].circleIndex = paths + n - 1
               /\ circles[paths + n][4] = 2
               /\ hits[n].glyphArrayIndex - l.symbol.glyphStartIndex + 1 \in 1..Len(l.glyphs)
               /\ HitGlyph(l, hits[n]).glyphCharCode = hits[n].glyphCharCode
               /\ hits[n].glyphCharCode \in SPECIAL_GLYPH_CODES
               /\ HitGlyph(l, hits[n]).placed

C24_GlyphCirclesNotTested ==
    (PlacedCircles /\ LastGeometry.present) =>
        LET l == LineSym(last.symbol)
            blocked == l.overlapMode # "always" /\ BlockedCircles(grid, l) # {}
        IN  /\ last.result.collisionDetected = blocked
            /\ hitTestsMade(grid, LastGeometry, l.overlapMode, l.showCollisionCircles,
                            l.predicate) <= Len(LastGeometry.centres)
            /\ (~blocked /\ ~NoneInGrid(grid, l) /\ ~BelowCutoff(l)) =>
                   /\ Len(last.result.circles) = 4 * (Len(LastGeometry.centres)
                                                        + Len(LastGeometry.glyphCircles))
                   /\ Len(last.result.glyphHits) = Len(LastGeometry.glyphCircles)
            /\ last.result.circles # <<>> => GlyphCirclesAppended(l, last.result)

\* A special-glyph circle lies over an entry of the grid that the label's
\* path circles clear: no collision, and the circle is returned with flag 2.
C24_Witness ==
    /\ PlacedCircles
    /\ LineSym(last.symbol).overlapMode # "always"
    /\ ~LineSym(last.symbol).showCollisionCircles
    /\ BlockedGlyphCircles(grid, LineSym(last.symbol)) # {}
    /\ BlockedCircles(grid, LineSym(last.symbol)) = {}
    /\ ~last.result.collisionDetected
    /\ Len(last.result.glyphHits) > 0
    /\ \E k \in 1..Len(CirclesOf(last.result.circles)) :
           CirclesOf(last.result.circles)[k][4] = 2

(***************************************************************************)
(* C25.  The visibility pre-filter: when the bounding box of the projected *)
(* path lies fully inside the padded viewport [-100, width + 100] x        *)
(* [-100, height + 100] the whole path is the single segment, unclipped;   *)
(* when it lies fully outside, no path circle is produced; otherwise the   *)
(* segments are exactly what clipLine makes of the path against that       *)
(* rectangle.                                                              *)
(***************************************************************************)
InPaddedViewport(p) ==
    /\ -100 <= p.x /\ p.x <= transform.width + 100
    /\ -100 <= p.y /\ p.y <= transform.height + 100

FullyInside(path) == \A k \in 1..Len(path) : InPaddedViewport(path[k])

FullyOutside(path) ==
    \/ \A k \in 1..Len(path) : path[k].x < -100
    \/ \A k \in 1..Len(path) : path[k].x > transform.width + 100
    \/ \A k \in 1..Len(path) : path[k].y < -100
    \/ \A k \in 1..Len(path) : path[k].y > transform.height + 100

C25_VisibilityPreFilter ==
    (PlacedCircles /\ LastGeometry.present /\ LastGeometry.projectedPath # <<>>) =>
        LET path == LastGeometry.projectedPath
            segments == LastGeometry.segments
        IN  IF FullyInside(path) THEN segments = <<path>>
            ELSE IF FullyOutside(path)
            THEN /\ segments = <<>>
                 /\ LastGeometry.centres = <<>>
                 /\ \A k \in 1..Len(CirclesOf(last.result.circles)) :
                        CirclesOf(last.result.circles)[k][4] = 2
            ELSE /\ segments = clipLine(path, -100, -100,
                                        transform.width + 100, transform.height + 100)
                 /\ \A n \in 1..Len(segments) :
                        \A k \in 1..Len(segments[n]) : InPaddedViewport(segments[n][k])

\* A path that crosses the edge of the padded viewport was placed: it was
\* cut to a shorter segment.
C25_Witness ==
    /\ PlacedCircles
    /\ LastGeometry.projectedPath # <<>>
    /\ ~FullyInside(LastGeometry.projectedPath)
    /\ ~FullyOutside(LastGeometry.projectedPath)
    /\ Len(LastGeometry.segments) = 1
    /\ LastGeometry.segments[1] # LastGeometry.projectedPath
    /\ LastGeometry.centres # <<>>

\* A path wholly outside the padded viewport was placed.
C25_WitnessOutside ==
    /\ PlacedCircles
    /\ LastGeometry.projectedPath # <<>>
    /\ FullyOutside(LastGeometry.projectedPath)

(***************************************************************************)
(* The radius of the collision circles as a function of the zoom, the      *)
(* circle diameter, the perspective ratio and the padding.                 *)
(***************************************************************************)
\* zoom levels in hundredths
ZoomLevels == {0, 25, 50, 75, 100, 250, 1475}
CirclePixelDiameters == {16, 32, 320}
\* in hundredths
PerspectiveRatios == {55, 100, 150, 400}
TextPixelPaddings == {0, 2, 5}

RadiusInit ==
    /\ grid = <<>>
    /\ ignoredGrid = <<>>
    /\ placedTrace = <<>>
    /\ inserts = 0
    /\ \E zoom \in ZoomLevels, circlePixelDiameter \in CirclePixelDiameters,
          perspectiveRatio \in PerspectiveRatios, textPixelPadding \in TextPixelPaddings :
           last = [op |-> "symbolSize", zoom |-> zoom,
                   circlePixelDiameter |-> circlePixelDiameter,
                   perspectiveRatio |-> perspectiveRatio,
                   textPixelPadding |-> textPixelPadding]

\* radius in hundredths of a pixel, circleDist (radius * 2.5) in thousandths
CollisionCircleRadius ==
    /\ last.op = "symbolSize"
    /\ LET radius == collisionCircleRadius(last.zoom, last.circlePixelDiameter,
                                           last.perspectiveRatio, last.textPixelPadding)
       IN  last' = [op |-> "collisionCircleRadius", zoom |-> last.zoom,
                    circlePixelDiameter |-> last.circlePixelDiameter,
                    perspectiveRatio |-> last.perspectiveRatio,
                    textPixelPadding |-> last.textPixelPadding,
                    radius |-> radius, circleDist |-> radius * 25]
    /\ UNCHANGED <<grid, ignoredGrid, placedTrace, inserts>>

RadiusNext == CollisionCircleRadius

RadiusSpec == RadiusInit /\ [][RadiusNext]_vars

RadiusComputed == last.op = "collisionCircleRadius"

\* |a - b| is within the rounding of the fixed-point arithmetic
Near(a, b) == Abs(a - b) <= 200000

\* the part of the radius that is not padding, in hundredths of a pixel
Unpadded == last.radius - 100 * last.textPixelPadding

ZoomFractionOf(zoom) == zoom % 100

(***************************************************************************)
(* C26, as stated.  The radius equals circlePixelDiameter x                *)
(* perspectiveRatio x 2^(-zoomFraction) + textPixelPadding, where          *)
(* zoomFraction = zoom - floor(zoom); at an integer zoom with perspective  *)
(* ratio 1 the radius is circlePixelDiameter + textPixelPadding; the       *)
(* centre spacing is 2.5 x radius.                                         *)
(***************************************************************************)
C26_RadiusAsStated ==
    RadiusComputed =>
        /\ Near(Unpadded * 10000,
                last.circlePixelDiameter * last.perspectiveRatio
                    * PowOfTwoNeg(ZoomFractionOf(last.zoom)))
        /\ (ZoomFractionOf(last.zoom) = 0 /\ last.perspectiveRatio = 100) =>
               last.radius = 100 * (last.circlePixelDiameter + last.textPixelPadding)
        /\ 2 * last.circleDist = 50 * last.radius

(***************************************************************************)
(* C26, amended.  The radius equals 0.25 x circlePixelDiameter x           *)
(* perspectiveRatio / 2^(-zoomFraction) + textPixelPadding, where          *)
(* zoomFraction = zoom - floor(zoom): it grows with the zoom fraction, by  *)
(* the factor 2^zoomFraction.  At an integer zoom with perspective ratio 1 *)
(* the radius is a quarter of circlePixelDiameter plus textPixelPadding;   *)
(* the centre spacing is 2.5 x radius.                                     *)
(***************************************************************************)
C26_Radius ==
    RadiusComputed =>
        /\ Near(4 * Unpadded * PowOfTwoNeg(ZoomFractionOf(last.zoom)),
                last.circlePixelDiameter * last.perspectiveRatio * 10000)
        /\ (ZoomFractionOf(last.zoom) = 0 /\ last.perspectiveRatio = 100) =>
               4 * Unpadded = 100 * last.circlePixelDiameter
        /\ 2 * last.circleDist = 50 * last.radius

\* A radius at a fractional zoom, with padding and a perspective ratio
\* other than 1.
C26_Witness ==
    /\ RadiusComputed
    /\ ZoomFractionOf(last.zoom) = 50
    /\ last.zoom > 100
    /\ last.perspectiveRatio = 150
    /\ last.textPixelPadding = 2
    /\ last.circlePixelDiameter = 32
    /\ last.radius > 1800

(***************************************************************************)
(* C27.  On every visible segment, circle i of numCircles (0 <= i <        *)
(* numCircles) is sampled at t = i / max(numCircles - 1, 1): every t lies  *)
(* in [0, 1], the first circle is at t = 0, the last is at t = 1 whenever  *)
(* numCircles >= 2, and a single circle is sampled at t = 0 with no        *)
(* division by zero.                                                       *)
(***************************************************************************)
\* t is a fraction in [0, 1] with a denominator that is not zero
InUnitInterval(t) == t.den > 0 /\ 0 <= t.num /\ t.num <= t.den

SamplesSpanSegment(numCircles) ==
    /\ \A i \in 0..(numCircles - 1) :
           /\ InUnitInterval(SampleParameter(i, numCircles))
           /\ SampleParameter(i, numCircles).num * Max(numCircles - 1, 1)
                  = i * SampleParameter(i, numCircles).den
    /\ SampleParameter(0, numCircles).num = 0
    /\ numCircles >= 2 =>
           SampleParameter(numCircles - 1, numCircles).num
               = SampleParameter(numCircles - 1, numCircles).den
    /\ numCircles = 1 => SampleParameter(0, numCircles) = [num |-> 0, den |-> 1]

\* The point of the padded segment at t = num / den, viewport padding added.
PaddedPoint(seg, radius, num, den) ==
    LET p == InterpolatorLerp(seg, radius \div 4, num, den)
    IN  [x |-> p.x + viewportPadding, y |-> p.y + viewportPadding]

\* The circles of a segment start at the padded start of the segment and,
\* when there are two or more, end at its padded end.
EndsSampled(seg, radius) ==
    LET circles == SegmentCircles(seg, radius)
    IN  /\ Len(circles) >= 1
        /\ SamplesSpanSegment(Len(circles))
        /\ circles[1] = PaddedPoint(seg, radius, 0, 1)
        /\ Len(circles) >= 2 => circles[Len(circles)] = PaddedPoint(seg, radius, 1, 1)

EndsSampledOnTestSegments ==
    \A length \in 0..MaxSegmentLength, radius \in TestRadii :
        EndsSampled(TestSegment(length), radius)

C27_SampleParameters ==
    /\ EndsSampledOnTestSegments
    /\ (PlacedCircles /\ LastGeometry.present) =>
           \A k \in 1..Len(LastGeometry.segments) :
               EndsSampled(LastGeometry.segments[k], LastGeometry.radius)

\* A label with several circles on its segment was placed, the first at
\* the padded start and the last at the padded end; a segment with a
\* single circle is among the test segments.
C27_Witness ==
    /\ PlacedCircles
    /\ Len(LastGeometry.segments) = 1
    /\ Len(LastGeometry.centres) >= 2
    /\ CirclesOf(last.result.circles)[1][1]
           = PaddedPoint(LastGeometry.segments[1], LastGeometry.radius, 0, 1).x
    /\ CirclesOf(last.result.circles)[Len(LastGeometry.centres)][1]
           = PaddedPoint(LastGeometry.segments[1], LastGeometry.radius, 1, 1).x
    /\ CirclesOf(last.result.circles)[1][1]
           < CirclesOf(last.result.circles)[Len(LastGeometry.centres)][1]
    /\ \E length \in 0..MaxSegmentLength :
           Len(SegmentCircles(TestSegment(length), LastGeometry.radius)) = 1

(***************************************************************************)
(* isOffscreen and isInsideGrid as functions of the box and the viewport.  *)
(***************************************************************************)
ViewportSizes == {0, 200, 300}
\* Box coordinates around the boundaries of those viewports.
BoxXs == {-1, 0, 99, 100, 199, 200, 299, 300, 301, 399, 400, 499, 500}
BoxYs == {-1, 0, 100, 300, 301, 400, 500}

BoundaryInit ==
    /\ grid = <<>>
    /\ ignoredGrid = <<>>
    /\ placedTrace = <<>>
    /\ inserts = 0
    /\ \E width \in ViewportSizes, height \in ViewportSizes :
       \E x1 \in BoxXs, x2 \in BoxXs, y1 \in BoxYs, y2 \in BoxYs :
           /\ x1 <= x2
           /\ y1 <= y2
           /\ last = [op |-> "box", width |-> width, height |-> height,
                      box |-> <<x1, y1, x2, y2>>]

ClassifyBox ==
    /\ last.op = "box"
    /\ LET this == CollisionIndex(last.width, last.height)
           box == last.box
       IN  last' = [op |-> "classified", width |-> last.width, height |-> last.height,
                    box |-> box,
                    offscreen |-> isOffscreenOf(this, box[1], box[2], box[3], box[4]),
                    insideGrid |-> isInsideGridOf(this, box[1], box[2], box[3], box[4])]
    /\ UNCHANGED <<grid, ignoredGrid, placedTrace, inserts>>

BoundaryNext == ClassifyBox

BoundarySpec == BoundaryInit /\ [][BoundaryNext]_vars

Classified == last.op = "classified"

(***************************************************************************)
(* C28.  For every box (x1 <= x2, y1 <= y2) and every viewport with width, *)
(* height >= 0, a box that isInsideGrid puts outside the padded grid is    *)
(* offscreen by isOffscreen; equivalently, every box that is not offscreen *)
(* is inside the grid.                                                     *)
(***************************************************************************)
C28_OutsideGridIsOffscreen ==
    Classified =>
        /\ ~last.insideGrid => last.offscreen
        /\ ~last.offscreen => last.insideGrid

\* A box beyond the right edge of the grid of a 200 wide viewport, whose
\* other three sides are within the screen.
C28_Witness ==
    /\ Classified
    /\ last.width = 200
    /\ last.box[1] = 400
    /\ last.box[2] = 100 /\ last.box[4] = 300
    /\ ~last.insideGrid
    /\ last.offscreen

\* The converse fails: a box in the padding around the screen is offscreen
\* and inside the grid.
C28_WitnessPadding ==
    /\ Classified
    /\ last.offscreen
    /\ last.insideGrid

(***************************************************************************)
(* C29.  In every result of placeCollisionCircles, the circleIndex of each *)
(* glyphHits entry is the index of a circle that is in the returned        *)
(* circles array and has flag 2; in particular glyphHits is empty whenever *)
(* circles is empty.                                                       *)
(***************************************************************************)
C29_GlyphHitsIndexCircles ==
    PlacedCircles =>
        LET circles == CirclesOf(last.result.circles)
            hits == last.result.glyphHits
        IN  /\ \A n \in 1..Len(hits) :
                   /\ hits[n].circleIndex + 1 \in 1..Len(circles)
                   /\ circles[hits[n].circleIndex + 1][4] = 2
            /\ last.result.circles = <<>> => hits = <<>>

\* A label below the perspective ratio cutoff was placed without any
\* collision: no circle is returned, and its glyph hit is.
C29_Witness ==
    /\ PlacedCircles
    /\ LastGeometry.present
    /\ BelowCutoff(LineSym(last.symbol))
    /\ ~last.result.collisionDetected
    /\ last.result.circles = <<>>
    /\ Len(last.result.glyphHits) = 1
    /\ last.result.glyphHits[1].circleIndex = Len(LastGeometry.centres)

(***************************************************************************)
(* C30.  applyColorSplit preserves visible text and section order: the     *)
(* texts of the output sections made from one input section, joined, are   *)
(* the input section's text without its matched hex marker sequences       *)
(* (RGB marker, '#', six hex digits; RGBA marker, '#', eight hex digits),  *)
(* nothing else added, removed or reordered; a section without any marker  *)
(* is passed through unchanged; a colour set inside one section never      *)
(* carries into the next.                                                  *)
(***************************************************************************)
\* The input sections of the model differ in scale, which the split copies
\* to every section it makes: the output sections made from section j.
MadeFrom(result, formattedText, j) ==
    SelectSeq(result.sections, LAMBDA s : s.scale = formattedText.sections[j].scale)

JoinedText(sections) == Concat([k \in 1..Len(sections) |-> sections[k].text])

\* the text of a section without its hex marker sequences
VisibleText(section) ==
    [n \in 1..Len(ExpectedChars(section, 1)) |-> ExpectedChars(section, 1)[n].char]

HasMarkerChar(t) ==
    \E i \in 1..Len(t) : t[i] \in {RGB_MARKER, RGBA_MARKER} \/ NamedAt(t, i)

\* no marker stands before position p of text t
BeforeMarkers(t, p) == \A i \in 1..(p - 1) : ~MarkerAt(t, i)

\* the longest start of text t that holds no marker
UnmarkedStart(t) ==
    LET marked == {i \in 1..Len(t) : MarkerAt(t, i)}
    IN  IF marked = {} THEN t
        ELSE SubSeq(t, 1, (CHOOSE i \in marked : \A j \in marked : i <= j) - 1)

C30_TextAndOrderKept ==
    Applied =>
        LET input == last.formattedText.sections
            output == last.result.sections
        IN  /\ \A j \in 1..Len(input) :
                   LET made == MadeFrom(last.result, last.formattedText, j)
                   IN  /\ JoinedText(made) = VisibleText(input[j])
                       /\ ~HasMarkerChar(input[j].text) => made = <<input[j]>>
                       \* a section that starts with unmarked text starts
                       \* in its own colour, whatever came before it
                       /\ UnmarkedStart(input[j].text) # <<>> =>
                              /\ made # <<>>
                              /\ made[1].textColor = input[j].textColor
                              /\ made[1].text = UnmarkedStart(input[j].text)
            /\ \A k \in 1..Len(output) :
                   \E j \in 1..Len(input) : output[k].scale = input[j].scale
            /\ \A k \in 1..(Len(output) - 1) : output[k].scale <= output[k + 1].scale
            /\ Len(OutputChars(last.result)) = Len(Expected(last.formattedText))

\* Two input sections: the first ends in the colour of its hex marker, the
\* second has a named marker in the middle and starts in its own colour.
C30_Witness ==
    /\ Applied
    /\ Len(last.formattedText.sections) = 2
    /\ last.formattedText.sections[1].text
           = <<RGB_MARKER, "#", "1", "1", "2", "2", "3", "3", "H">>
    /\ last.formattedText.sections[2].text = <<"H", "E002", "5">>
    /\ last.formattedText.sections[2].textColor = Gray
    /\ Len(last.result.sections) = 4
    /\ last.result.sections[1].text = <<"H">>
    /\ last.result.sections[1].textColor = <<17, 34, 51, 255>>
    /\ last.result.sections[2].text = <<"H">>
    /\ last.result.sections[2].textColor = Gray
    /\ JoinedText(MadeFrom(last.result, last.formattedText, 2)) = <<"H", "E002", "5">>

====
